---- MODULE Spec2Model ----
(***************************************************************************)
(* schemactl: the Schema Registry command-line client.                     *)
(*                                                                         *)
(*   internal/config   Load, Validate, WithAPIURL, WithAPIKey              *)
(*   internal/client   New, doRequest, MatchSchema, GenerateSchema         *)
(*   internal/commands rootCmd.PersistentPreRunE, Execute, RunShell,       *)
(*                     executeShellCommand, initClient                     *)
(*   cmd/schemactl     main                                                *)
(*                                                                         *)
(* Text is modelled as sequences: a URL is a sequence of characters, a     *)
(* response body a sequence of JSON tokens.  API keys and file names are   *)
(* atomic strings.                                                         *)
(***************************************************************************)
EXTENDS Integers, Sequences, FiniteSets, TLC

VARIABLES
    env,        \* the process environment: [url, key, timeout]
    apiURL,     \* --api-url flag variable (package commands)
    apiKey,     \* --api-key flag variable (package commands)
    heap,       \* the Config objects allocated so far, by address
    cfg,        \* package-level cfg: an address of heap, or Nil
    apiClient,  \* package-level apiClient: a Client record, or NoClient
    mode,       \* "lib", "oneshot" or "shell"
    args,       \* the command line being executed: [cmd, url, key]
    execErr,    \* the error the command's Execute returned
    pc,         \* where the running code is
    call,       \* the client operation in progress and its arguments
    req,        \* the HTTP request of the current call, or NoReq
    nreq,       \* requests handed to the transport by the current call
    net,        \* what the transport returned for req
    ret,        \* what the client operation returned: [err, result]
    clock,      \* seconds since the current call handed its request over
    stdin,      \* lines the interactive shell has read
    stdout,     \* error messages written to standard output
    out,        \* the text the command wrote last to standard output on success
    ps,         \* a PowerShell function call: its parameters and the forms it sent
    reader,     \* bufio.Reader on os.Stdin: the bytes not yet read, how the input ends
    jsonOut,    \* the global the --json flag is parsed into
    JSONOutput, \* output.JSONOutput
    stderr,     \* error messages written to standard error
    exitCode    \* -1 while the process runs, then its exit status

vars == <<env, apiURL, apiKey, heap, cfg, apiClient, mode, args, execErr, pc,
          call, req, nreq, net, ret, clock, stdin, stdout, out, ps, reader, jsonOut,
          JSONOutput, stderr, exitCode>>

cliVars == <<env, apiURL, apiKey, heap, cfg, mode, args, execErr, stdin, stdout, out, ps,
             reader, jsonOut, JSONOutput, stderr, exitCode>>

callVars == <<call, req, nreq, net, ret, clock>>

(***************************************************************************)
(* Bounds of the model.                                                    *)
(***************************************************************************)
MaxBodyLen == 4     \* tokens in a response body
MaxLines == 2       \* lines typed into the interactive shell

Nil == 0

(***************************************************************************)
(* Errors.  fmt.Errorf gives every error a message built from a format;    *)
(* %w keeps the cause reachable through errors.Unwrap.                     *)
(***************************************************************************)
NoErr == [format |-> "", status |-> 0, text |-> <<>>, cause |-> ""]

Errorf(format, status, text, cause) ==
    [format |-> format, status |-> status, text |-> text, cause |-> cause]

(***************************************************************************)
(* JSON.  A body is a sequence of tokens; a key token stands for the       *)
(* quoted member name and its colon.  "<" is text that starts no JSON      *)
(* value (an HTML error page, a plain-text message).                       *)
(***************************************************************************)
LBRACE == "{"
RBRACE == "}"
KeyError == "\"error\":"
KeyStatus == "\"status\":"
StrMsg == "\"msg\""
StrEmpty == "\"\""
Junk == "<"

KeyTokens == {KeyError, KeyStatus}
StrTokens == {StrMsg, StrEmpty}
BodyTokens == {LBRACE, RBRACE, Junk} \cup KeyTokens \cup StrTokens

Bodies == UNION {[1..n -> BodyTokens] : n \in 0..MaxBodyLen}

\* the Go string a string token denotes
Unquote(t) == IF t = StrMsg THEN "msg" ELSE ""

\* the member name a key token denotes
KeyName(t) == IF t = KeyError THEN "error" ELSE "status"

BadValue == [ok |-> FALSE, next |-> 0, t |-> "", s |-> "", key |-> "", mt |-> "", ms |-> ""]

\* The JSON value that starts at b[i]: its type t ("string" with value s, or
\* "object" with at most one member key of type mt and string value ms) and
\* the index after it.
RECURSIVE ParseValue(_, _)
ParseValue(b, i) ==
    IF i > Len(b) THEN BadValue
    ELSE IF b[i] \in StrTokens
    THEN [ok |-> TRUE, next |-> i + 1, t |-> "string", s |-> Unquote(b[i]),
          key |-> "", mt |-> "", ms |-> ""]
    ELSE IF b[i] = LBRACE /\ i + 1 <= Len(b) /\ b[i + 1] = RBRACE
    THEN [ok |-> TRUE, next |-> i + 2, t |-> "object", s |-> "",
          key |-> "", mt |-> "", ms |-> ""]
    ELSE IF b[i] = LBRACE /\ i + 1 <= Len(b) /\ b[i + 1] \in KeyTokens
    THEN LET v == ParseValue(b, i + 2)
         IN  IF v.ok /\ v.next <= Len(b) /\ b[v.next] = RBRACE
             THEN [ok |-> TRUE, next |-> v.next + 1, t |-> "object", s |-> "",
                   key |-> KeyName(b[i + 1]), mt |-> v.t, ms |-> v.s]
             ELSE BadValue
    ELSE BadValue

\* json.Unmarshal first checks that the whole input is one JSON value
checkValid(b) ==
    LET v == ParseValue(b, 1) IN v.ok /\ v.next = Len(b) + 1

\* json.Unmarshal(body, &struct) for a struct whose only known member is the
\* string field named field: [err, value].  A syntax error, a top-level value
\* that is no object and a non-string value for the field are errors; an
\* unknown member is skipped.
UnmarshalStruct(b, field) ==
    LET v == ParseValue(b, 1)
    IN  IF ~checkValid(b) THEN [err |-> TRUE, value |-> ""]
        ELSE IF v.t # "object" THEN [err |-> TRUE, value |-> ""]
        ELSE IF v.key # field THEN [err |-> FALSE, value |-> ""]
        ELSE IF v.mt # "string" THEN [err |-> TRUE, value |-> ""]
        ELSE [err |-> FALSE, value |-> v.ms]

\* json.Unmarshal(respBody, &errResp) with errResp an ErrorResponse
UnmarshalErrorResponse(b) == UnmarshalStruct(b, "error")

(***************************************************************************)
(* encoding/json for the request and response types.  A JSON text is a     *)
(* sequence of tokens as above, with "," between members; a decoded value  *)
(* is [t, s, m]: its type, its text for a string or a boolean, and its     *)
(* members, a function from names to values, for an object.                *)
(***************************************************************************)
COMMA == ","
NULL == "null"

\* the member names and the strings that occur, names in byte order
NameOrder ==
    <<"content", "countryCode", "customerId", "description", "docTypeCode",
      "error", "isActive", "matchType", "name", "publicId", "schema",
      "schemaType", "status", "type", "visibility">>
Names == {NameOrder[i] : i \in 1..Len(NameOrder)}
StringValues == {"", "x", "msg", "exact", "object", "public", "I", "PT", "c1", "d"}

Quote(s) == "\"" \o s \o "\""
KeyToken(name) == "\"" \o name \o "\":"

NoMembers == [n \in {} |-> 0]
JNull == [t |-> "null", s |-> "", m |-> NoMembers]
JString(s) == [t |-> "string", s |-> s, m |-> NoMembers]
JBool(b) == [t |-> "bool", s |-> IF b THEN "true" ELSE "false", m |-> NoMembers]
JObject(m) == [t |-> "object", s |-> "", m |-> m]

Put(m, k, v) == [x \in DOMAIN m \cup {k} |-> IF x = k THEN v ELSE m[x]]

BadScan == [ok |-> FALSE, next |-> 0, v |-> JNull]
Scanned(next, v) == [ok |-> TRUE, next |-> next, v |-> v]

\* the decoder: the value that starts at b[i]; in an object a later member
\* replaces an earlier one of the same name
RECURSIVE Scan(_, _), ScanMembers(_, _, _)
Scan(b, i) ==
    IF i > Len(b) THEN BadScan
    ELSE IF b[i] = NULL THEN Scanned(i + 1, JNull)
    ELSE IF b[i] \in {"true", "false"} THEN Scanned(i + 1, JBool(b[i] = "true"))
    ELSE IF \E s \in StringValues : b[i] = Quote(s)
    THEN Scanned(i + 1, JString(CHOOSE s \in StringValues : b[i] = Quote(s)))
    ELSE IF b[i] = LBRACE
    THEN IF i + 1 <= Len(b) /\ b[i + 1] = RBRACE
         THEN Scanned(i + 2, JObject(NoMembers))
         ELSE ScanMembers(b, i + 1, NoMembers)
    ELSE BadScan

ScanMembers(b, i, m) ==
    IF i > Len(b) \/ ~(\E n \in Names : b[i] = KeyToken(n)) THEN BadScan
    ELSE LET n == CHOOSE n \in Names : b[i] = KeyToken(n)
             v == Scan(b, i + 1)
         IN  IF ~v.ok \/ v.next > Len(b) THEN BadScan
             ELSE IF b[v.next] = RBRACE
             THEN Scanned(v.next + 1, JObject(Put(m, n, v.v)))
             ELSE IF b[v.next] = COMMA
             THEN ScanMembers(b, v.next + 1, Put(m, n, v.v))
             ELSE BadScan

\* json.Unmarshal(data, &v) with v an interface{} or a map: [err, v]
Decode(b) ==
    LET r == Scan(b, 1)
    IN  IF r.ok /\ r.next = Len(b) + 1 THEN [err |-> FALSE, v |-> r.v]
        ELSE [err |-> TRUE, v |-> JNull]

\* the encoder: members joined by "," between braces
RECURSIVE JoinMembers(_)
JoinMembers(ms) ==
    IF ms = <<>> THEN <<>>
    ELSE IF Len(ms) = 1 THEN ms[1]
    ELSE ms[1] \o <<COMMA>> \o JoinMembers(Tail(ms))

MarshalObject(ms) == <<LBRACE>> \o JoinMembers(ms) \o <<RBRACE>>

\* json.Marshal of a decoded value; a map's keys are written sorted
RECURSIVE MarshalValue(_), MarshalMembers(_, _)
MarshalValue(v) ==
    IF v.t = "null" THEN <<NULL>>
    ELSE IF v.t = "string" THEN <<Quote(v.s)>>
    ELSE IF v.t = "bool" THEN <<v.s>>
    ELSE MarshalObject(MarshalMembers(v.m, 1))

MarshalMembers(m, i) ==
    IF i > Len(NameOrder) THEN <<>>
    ELSE (IF NameOrder[i] \in DOMAIN m
          THEN <<(<<KeyToken(NameOrder[i])>> \o MarshalValue(m[NameOrder[i]]))>>
          ELSE <<>>) \o MarshalMembers(m, i + 1)

\* a map[string]interface{}: nil, or the object m
NilMap == [nil |-> TRUE, m |-> NoMembers]
Map(m) == [nil |-> FALSE, m |-> m]
MarshalMap(c) == IF c.nil THEN <<NULL>> ELSE MarshalValue(JObject(c.m))

\* struct fields as json.Marshal writes them: a plain string field, and the
\* omitempty fields, which are left out when nil (a pointer) or of length 0
\* (a map)
StringField(name, v) == <<(<<KeyToken(name), Quote(v)>>)>>
MapField(name, c) == <<(<<KeyToken(name)>> \o MarshalMap(c))>>
PtrFieldOmitEmpty(name, p) ==
    IF p.set THEN <<(<<KeyToken(name), Quote(p.v)>>)>> ELSE <<>>
BoolPtrFieldOmitEmpty(name, p) ==
    IF p.set THEN <<(<<KeyToken(name), IF p.v THEN "true" ELSE "false">>)>> ELSE <<>>
MapFieldOmitEmpty(name, c) ==
    IF c.nil \/ DOMAIN c.m = {} THEN <<>> ELSE MapField(name, c)

\* json.Unmarshal into the fields of a struct from the members m of an
\* object: [err, v].  A member that is absent or null leaves the field at
\* its zero value; a value of another type is an UnmarshalTypeError.
NilString == [set |-> FALSE, v |-> ""]

StringMember(m, n) ==
    IF n \notin DOMAIN m \/ m[n].t = "null" THEN [err |-> FALSE, v |-> ""]
    ELSE IF m[n].t = "string" THEN [err |-> FALSE, v |-> m[n].s]
    ELSE [err |-> TRUE, v |-> ""]

\* PtrMember leaving the pointer nil for an empty string
PtrMember_emptyIsNil(m, n) ==
    IF n \notin DOMAIN m \/ m[n].t = "null" THEN [err |-> FALSE, v |-> NilString]
    ELSE IF m[n].t = "string"
    THEN [err |-> FALSE, v |-> [set |-> m[n].s # "", v |-> m[n].s]]
    ELSE [err |-> TRUE, v |-> NilString]

PtrMember(m, n) ==
    IF n \notin DOMAIN m \/ m[n].t = "null" THEN [err |-> FALSE, v |-> NilString]
    ELSE IF m[n].t = "string"
    THEN [err |-> FALSE, v |-> [set |-> TRUE, v |-> m[n].s]]
    ELSE [err |-> TRUE, v |-> NilString]

MapMember(m, n) ==
    IF n \notin DOMAIN m \/ m[n].t = "null" THEN [err |-> FALSE, v |-> NilMap]
    ELSE IF m[n].t = "object" THEN [err |-> FALSE, v |-> Map(m[n].m)]
    ELSE [err |-> TRUE, v |-> NilMap]

\* SchemaWithRelations (part_002:51-75) without its version number, its
\* times and its embedded DocType and Country
ZeroSchema ==
    [PublicID |-> "", Name |-> "", Description |-> NilString, Content |-> NilMap,
     SchemaType |-> "", Status |-> "", CustomerID |-> NilString, Visibility |-> "",
     DocTypeCode |-> "", CountryCode |-> NilString]

UnmarshalSchema(m) ==
    LET publicId == StringMember(m, "publicId")
        name == StringMember(m, "name")
        description == PtrMember(m, "description")
        content == MapMember(m, "content")
        schemaType == StringMember(m, "schemaType")
        status == StringMember(m, "status")
        customerId == PtrMember(m, "customerId")
        visibility == StringMember(m, "visibility")
        docTypeCode == StringMember(m, "docTypeCode")
        countryCode == PtrMember(m, "countryCode")
    IN  [err |-> \/ publicId.err \/ name.err \/ description.err \/ content.err
                 \/ schemaType.err \/ status.err \/ customerId.err
                 \/ visibility.err \/ docTypeCode.err \/ countryCode.err,
         value |-> [PublicID |-> publicId.v, Name |-> name.v,
                    Description |-> description.v, Content |-> content.v,
                    SchemaType |-> schemaType.v, Status |-> status.v,
                    CustomerID |-> customerId.v, Visibility |-> visibility.v,
                    DocTypeCode |-> docTypeCode.v, CountryCode |-> countryCode.v]]

\* FindBestResponse (part_002:148-151): Schema is a pointer, nil when the
\* member is absent or null
NilSchema == [nil |-> TRUE, v |-> ZeroSchema]
ZeroFindBestResponse == [Schema |-> NilSchema, MatchType |-> NilString]

\* UnmarshalFindBestResponse allocating a schema for a null member
UnmarshalFindBestResponse_allocatesForNull(m) ==
    LET matchType == PtrMember(m, "matchType")
        schema ==
            IF "schema" \notin DOMAIN m THEN [err |-> FALSE, v |-> NilSchema]
            ELSE IF m["schema"].t = "null"
            THEN [err |-> FALSE, v |-> [nil |-> FALSE, v |-> ZeroSchema]]
            ELSE IF m["schema"].t = "object"
            THEN LET s == UnmarshalSchema(m["schema"].m)
                 IN  [err |-> s.err, v |-> [nil |-> FALSE, v |-> s.value]]
            ELSE [err |-> TRUE, v |-> NilSchema]
    IN  [err |-> schema.err \/ matchType.err,
         value |-> [Schema |-> schema.v, MatchType |-> matchType.v]]

UnmarshalFindBestResponse(m) ==
    LET matchType == PtrMember(m, "matchType")
        schema ==
            IF "schema" \notin DOMAIN m \/ m["schema"].t = "null"
            THEN [err |-> FALSE, v |-> NilSchema]
            ELSE IF m["schema"].t = "object"
            THEN LET s == UnmarshalSchema(m["schema"].m)
                 IN  [err |-> s.err, v |-> [nil |-> FALSE, v |-> s.value]]
            ELSE [err |-> TRUE, v |-> NilSchema]
    IN  [err |-> schema.err \/ matchType.err,
         value |-> [Schema |-> schema.v, MatchType |-> matchType.v]]

\* the result types json.Unmarshal fills field by field in this model, and
\* their zero values
TypedResults == {"FindBestResponse", "SchemaWithRelations"}
ZeroValue(result) ==
    IF result = "FindBestResponse" THEN ZeroFindBestResponse ELSE ZeroSchema

\* json.Unmarshal(respBody, result) for these types: [err, value]
UnmarshalResult(result, b) ==
    LET d == Decode(b)
    IN  IF d.err \/ d.v.t \notin {"object", "null"}
        THEN [err |-> TRUE, value |-> ZeroValue(result)]
        ELSE IF d.v.t = "null" THEN [err |-> FALSE, value |-> ZeroValue(result)]
        ELSE IF result = "FindBestResponse" THEN UnmarshalFindBestResponse(d.v.m)
        ELSE UnmarshalSchema(d.v.m)



(***************************************************************************)
(* URLs and paths: sequences of characters.  "^" is an ASCII control       *)
(* character, which url.Parse rejects.                                     *)
(***************************************************************************)
DefaultAPIURL ==
    <<"h","t","t","p","s",":","/","/","a","p","i",".","d","o","c","d","i","g",
      "i","t","i","z","e","r",".","c","o","m","/","r","e","g","i","s","t","r","y">>

DefaultTimeout == 30

HealthPath == <<"/","h","e","a","l","t","h">>
DocTypesPath == <<"/","a","d","m","i","n","/","d","o","c","-","t","y","p","e","s","/">>
ExtractPath == <<"/","s","c","h","e","m","a","s","/","e","x","t","r","a","c","t">>
GeneratePath == <<"/","s","c","h","e","m","a","s","/","g","e","n","e","r","a","t","e">>

\* strings.TrimSuffix(s, "/")
TrimSuffix(s) ==
    IF Len(s) > 0 /\ s[Len(s)] = "/" THEN SubSeq(s, 1, Len(s) - 1) ELSE s

\* the bytes url.QueryEscape and url.PathEscape replace, with their codes
EscapeCode ==
    [c \in {"/", "?", "#", "%", "&", "=", "+", " ", "^"} |->
        CASE c = "/" -> <<"%", "2", "F">>
          [] c = "?" -> <<"%", "3", "F">>
          [] c = "#" -> <<"%", "2", "3">>
          [] c = "%" -> <<"%", "2", "5">>
          [] c = "&" -> <<"%", "2", "6">>
          [] c = "=" -> <<"%", "3", "D">>
          [] c = "+" -> <<"%", "2", "B">>
          [] c = " " -> <<"%", "2", "0">>
          [] c = "^" -> <<"%", "7", "F">>]

\* PathEscape that leaves "?" as it is
RECURSIVE PathEscape_keepsQuestionMark(_)
PathEscape_keepsQuestionMark(s) ==
    IF s = <<>> THEN <<>>
    ELSE (IF Head(s) \in {"/", "#", "%", " ", "^"} THEN EscapeCode[Head(s)]
          ELSE <<Head(s)>>) \o PathEscape_keepsQuestionMark(Tail(s))

\* url.PathEscape, character by character: "&", "=" and "+" may stand in a
\* path segment, the other reserved bytes are replaced by their codes
RECURSIVE PathEscape(_)
PathEscape(s) ==
    IF s = <<>> THEN <<>>
    ELSE (IF Head(s) \in {"/", "?", "#", "%", " ", "^"} THEN EscapeCode[Head(s)]
          ELSE <<Head(s)>>) \o PathEscape(Tail(s))

\* http.NewRequest parses the URL and fails on a control character
ParsesAsURL(u) == \A i \in 1..Len(u) : u[i] # "^"

(***************************************************************************)
(* package client                                                          *)
(***************************************************************************)
NoClient == [alloc |-> FALSE, baseURL |-> <<>>, apiKey |-> "", timeout |-> 0]

\* client.New
New(c) ==
    [alloc |-> TRUE, baseURL |-> TrimSuffix(c.APIBaseURL), apiKey |-> c.APIKey,
     timeout |-> c.Timeout]

NoHeaders == [h \in {} |-> ""]

\* http.Header.Set
HeaderSet(h, k, v) == [x \in DOMAIN h \cup {k} |-> IF x = k THEN v ELSE h[x]]

NoBody == [kind |-> "none", parts |-> <<>>]
\* no shell input
NoReader == [buf |-> <<>>, end |-> ""]
\* no PowerShell function is running
NoPS ==
    [DocumentId |-> "", ContextId |-> "", guids |-> 0, sent |-> <<>>, saved |-> <<>>,
     outcome |-> ""]
NoReq == [method |-> "", url |-> <<>>, headers |-> NoHeaders, body |-> NoBody]
NoNet == [kind |-> "none", status |-> 0, body |-> <<>>, cause |-> ""]
NilResult == [ok |-> FALSE, status |-> ""]
NoRet == [done |-> FALSE, err |-> NoErr, result |-> NilResult]
\* cmd is the CLI command that made the call ("" for a direct call), id the
\* identifier and in the other arguments
NoCall ==
    [op |-> "", result |-> "", filePath |-> "", text |-> "", cmd |-> "",
     id |-> <<>>, in |-> <<>>]

Return(err, result) == [done |-> TRUE, err |-> err, result |-> result]

\* the Authorization header of doRequest (client.go:55-57)
doRequestAuth(c, h) ==
    IF c.apiKey # "" THEN HeaderSet(h, "Authorization", "Bearer " \o c.apiKey) ELSE h

\* MatchSchemaAuth without its test of the key
MatchSchemaAuth_unconditional(c, h) ==
    HeaderSet(h, "Authorization", "Bearer " \o c.apiKey)

\* the Authorization header of MatchSchema (client.go:341-343)
MatchSchemaAuth(c, h) ==
    IF c.apiKey # "" THEN HeaderSet(h, "Authorization", "Bearer " \o c.apiKey) ELSE h

\* the Authorization header of GenerateSchema (client.go:431-433)
GenerateSchemaAuth(c, h) ==
    IF c.apiKey # "" THEN HeaderSet(h, "Authorization", "Bearer " \o c.apiKey) ELSE h

\* what the transport can do with a request: fail before any response
\* (DNS, connection refused, timeout), answer, or fail while the body is read
TransportCauses == {"dial", "timeout"}
StatusCodes == {200, 400, 500}

NetOutcomes(bodies) ==
    [kind : {"error"}, status : {0}, body : {<<>>}, cause : TransportCauses]
    \cup [kind : {"readerr"}, status : StatusCodes, body : {<<>>}, cause : {"read"}]
    \cup [kind : {"response"}, status : StatusCodes, body : bodies, cause : {""}]


\* doRequestAPIError that never looks for a decoded message
doRequestAPIError_raw(status, body) ==
    Errorf("API error (%d): %s", status, body, "")

\* doRequestAPIError without its test for an empty message
doRequestAPIError_anyMessage(status, body) ==
    LET errResp == UnmarshalErrorResponse(body)
    IN  IF ~errResp.err
        THEN Errorf("API error (%d): %s", status, <<errResp.value>>, "")
        ELSE Errorf("API error (%d): %s", status, body, "")

\* doRequest: the error for a response with status >= 400 (client.go:70-76)
doRequestAPIError(status, body) ==
    LET errResp == UnmarshalErrorResponse(body)
    IN  IF ~errResp.err /\ errResp.value # ""
        THEN Errorf("API error (%d): %s", status, <<errResp.value>>, "")
        ELSE Errorf("API error (%d): %s", status, body, "")

\* doRequestTransportError reported in the form of an API error
doRequestTransportError_asAPI(cause) == Errorf("API error (%d): %s", 0, <<>>, "")

\* doRequest: the error when httpClient.Do fails (client.go:59-62)
doRequestTransportError(cause) == Errorf("request failed: %w", 0, <<>>, cause)

\* The result types: the member of each that a body of this model can set.
\* HealthResponse has the string member status (part_002:160-164);
\* ExtractResponse and GenerateResponse have no member named error or status
\* (part_002:189-192, 221-225).
KnownField(result) ==
    IF result = "HealthResponse" THEN "status" ELSE "(none)"

\* doRequestDecode without its test for an empty body
doRequestDecode_noLenTest(result, body) ==
    IF result # ""
    THEN LET d == UnmarshalStruct(body, KnownField(result))
         IN  IF d.err
             THEN Return(Errorf("failed to decode response: %w", 0, <<>>, "json"), NilResult)
             ELSE Return(NoErr, [ok |-> TRUE, status |-> d.value])
    ELSE Return(NoErr, [ok |-> FALSE, status |-> ""])

\* doRequest: decoding a response with status < 400 (client.go:78-84) and the
\* return of the calling method (client.go:88-94, 146-148); result names the
\* type result points to, "" for a nil result
doRequestDecode(result, body) ==
    IF result \in TypedResults
    THEN IF Len(body) > 0
         THEN LET d == UnmarshalResult(result, body)
              IN  IF d.err
                  THEN Return(Errorf("failed to decode response: %w", 0, <<>>, "json"),
                              NilResult)
                  ELSE Return(NoErr, [ok |-> TRUE, status |-> "", value |-> d.value])
         ELSE Return(NoErr, [ok |-> TRUE, status |-> "", value |-> ZeroValue(result)])
    ELSE IF result # "" /\ Len(body) > 0
    THEN LET d == UnmarshalStruct(body, KnownField(result))
         IN  IF d.err
             THEN Return(Errorf("failed to decode response: %w", 0, <<>>, "json"), NilResult)
             ELSE Return(NoErr, [ok |-> TRUE, status |-> d.value])
    ELSE Return(NoErr, [ok |-> result # "", status |-> ""])

\* doRequest from httpClient.Do on (client.go:59-85)
doRequestResult(result, n) ==
    IF n.kind = "error" THEN Return(doRequestTransportError(n.cause), NilResult)
    ELSE IF n.kind = "readerr"
    THEN Return(Errorf("failed to read response body: %w", 0, <<>>, n.cause), NilResult)
    ELSE IF n.status >= 400 THEN Return(doRequestAPIError(n.status, n.body), NilResult)
    ELSE doRequestDecode(result, n.body)

\* MatchSchema: the error for a response with status >= 400 (client.go:359-365)
MatchSchemaAPIError(status, body) ==
    LET errResp == UnmarshalErrorResponse(body)
    IN  IF ~errResp.err /\ errResp.value # ""
        THEN Errorf("API error (%d): %s", status, <<errResp.value>>, "")
        ELSE Errorf("API error (%d): %s", status, body, "")

\* MatchSchema: decoding a response with status < 400 (client.go:367-372)
MatchSchemaDecode(body) ==
    LET d == UnmarshalStruct(body, KnownField("ExtractResponse"))
    IN  IF d.err
        THEN Return(Errorf("failed to decode response: %w", 0, <<>>, "json"), NilResult)
        ELSE Return(NoErr, [ok |-> TRUE, status |-> ""])

\* MatchSchema from httpClient.Do on (client.go:348-373)
MatchSchemaResult(n) ==
    IF n.kind = "error"
    THEN Return(Errorf("request failed: %w", 0, <<>>, n.cause), NilResult)
    ELSE IF n.kind = "readerr"
    THEN Return(Errorf("failed to read response body: %w", 0, <<>>, n.cause), NilResult)
    ELSE IF n.status >= 400 THEN Return(MatchSchemaAPIError(n.status, n.body), NilResult)
    ELSE MatchSchemaDecode(n.body)

\* GenerateSchemaAPIError that never looks for a decoded message
GenerateSchemaAPIError_raw(status, body) ==
    Errorf("API error (%d): %s", status, body, "")

\* GenerateSchema: the error for a response with status >= 400 (client.go:446-452)
GenerateSchemaAPIError(status, body) ==
    LET errResp == UnmarshalErrorResponse(body)
    IN  IF ~errResp.err /\ errResp.value # ""
        THEN Errorf("API error (%d): %s", status, <<errResp.value>>, "")
        ELSE Errorf("API error (%d): %s", status, body, "")

\* GenerateSchema: decoding a response with status < 400 (client.go:454-459)
GenerateSchemaDecode(body) ==
    LET d == UnmarshalStruct(body, KnownField("GenerateResponse"))
    IN  IF d.err
        THEN Return(Errorf("failed to decode response: %w", 0, <<>>, "json"), NilResult)
        ELSE Return(NoErr, [ok |-> TRUE, status |-> ""])

\* GenerateSchema from httpClient.Do on (client.go:435-460)
GenerateSchemaResult(n) ==
    IF n.kind = "error"
    THEN Return(Errorf("request failed: %w", 0, <<>>, n.cause), NilResult)
    ELSE IF n.kind = "readerr"
    THEN Return(Errorf("failed to read response body: %w", 0, <<>>, n.cause), NilResult)
    ELSE IF n.status >= 400 THEN Return(GenerateSchemaAPIError(n.status, n.body), NilResult)
    ELSE GenerateSchemaDecode(n.body)

\* what the local file system holds
Files == {"doc.pdf", "gone.pdf"}
FileExists(f) == f = "doc.pdf"
Codes == {<<"a">>, <<"a", "/">>}
Keys == {"", "k"}
Optional(S) == [set : {FALSE}, v : {""}] \cup [set : {TRUE}, v : S]

\* the call fails before any request is made
Fail(err) ==
    /\ ret' = Return(err, NilResult)
    /\ pc' = "returned"
    /\ nreq' = 0
    /\ req' = NoReq
    /\ clock' = 0

\* the request goes to the transport
Do(r) ==
    /\ req' = r
    /\ nreq' = 1
    /\ clock' = 0
    /\ pc' = "inflight"
    /\ ret' = NoRet

\* Client.doRequest up to httpClient.Do (client.go:39-59)
doRequest(c, method, path, body) ==
    IF ~ParsesAsURL(c.baseURL \o path)
    THEN Fail(Errorf("failed to create request: %w", 0, <<>>, "url"))
    ELSE Do([method |-> method, url |-> c.baseURL \o path,
             headers |-> doRequestAuth(c,
                 HeaderSet(NoHeaders, "Content-Type", "application/json")),
             body |-> body])

\* Client.Health (client.go:87-94)
HealthCall ==
    /\ call' = [NoCall EXCEPT !.op = "Health", !.result = "HealthResponse"]
    /\ net' = NoNet
    /\ doRequest(apiClient, "GET", HealthPath, NoBody)

\* Client.DeleteDocType (client.go:145-148)
DeleteDocTypeCall(code) ==
    /\ call' = [NoCall EXCEPT !.op = "DeleteDocType", !.result = ""]
    /\ net' = NoNet
    /\ doRequest(apiClient, "DELETE", DocTypesPath \o PathEscape(code), NoBody)

\* Client.MatchSchema up to httpClient.Do (client.go:312-348)
MatchSchemaCall(filePath, customerID) ==
    /\ call' = [NoCall EXCEPT !.op = "MatchSchema", !.result = "ExtractResponse",
                              !.filePath = filePath]
    /\ net' = NoNet
    /\ IF ~FileExists(filePath)
       THEN Fail(Errorf("failed to open file: %w", 0, <<>>, "open"))
       ELSE IF ~ParsesAsURL(apiClient.baseURL \o ExtractPath)
       THEN Fail(Errorf("failed to create request: %w", 0, <<>>, "url"))
       ELSE Do([method |-> "POST", url |-> apiClient.baseURL \o ExtractPath,
                headers |->
                    LET h == MatchSchemaAuth(apiClient,
                                 HeaderSet(NoHeaders, "Content-Type", "multipart/form-data"))
                    IN  IF customerID.set
                        THEN HeaderSet(h, "X-Customer-Id", customerID.v) ELSE h,
                body |-> [kind |-> "multipart", parts |-> <<"file">>]])

\* the alternative modelled for comparison: the text is sent whenever it
\* is given, next to a file too
GenerateSchemaCallFrom_sendsBoth(cmd, filePath, text) ==
    /\ call' = [NoCall EXCEPT !.op = "GenerateSchema", !.result = "GenerateResponse",
                              !.cmd = cmd, !.filePath = filePath, !.text = text]
    /\ net' = NoNet
    /\ IF filePath # "" /\ ~FileExists(filePath)
       THEN Fail(Errorf("failed to open file: %w", 0, <<>>, "open"))
       ELSE IF filePath = "" /\ text = ""
       THEN Fail(Errorf("either FilePath or Text must be provided", 0, <<>>, ""))
       ELSE IF ~ParsesAsURL(apiClient.baseURL \o GeneratePath)
       THEN Fail(Errorf("failed to create request: %w", 0, <<>>, "url"))
       ELSE Do([method |-> "POST", url |-> apiClient.baseURL \o GeneratePath,
                headers |-> GenerateSchemaAuth(apiClient,
                    HeaderSet(NoHeaders, "Content-Type", "multipart/form-data")),
                body |-> [kind |-> "multipart",
                          parts |-> <<"docTypeCode", "countryCode">> \o
                                    (IF filePath # "" THEN <<"file", "useOCR">> ELSE <<>>) \o
                                    (IF text # "" THEN <<"text">> ELSE <<>>)]])

\* Client.GenerateSchema up to httpClient.Do (client.go:376-435)
GenerateSchemaCallFrom(cmd, filePath, text) ==
    /\ call' = [NoCall EXCEPT !.op = "GenerateSchema", !.result = "GenerateResponse",
                              !.cmd = cmd, !.filePath = filePath, !.text = text]
    /\ net' = NoNet
    /\ IF filePath # "" /\ ~FileExists(filePath)
       THEN Fail(Errorf("failed to open file: %w", 0, <<>>, "open"))
       ELSE IF filePath = "" /\ text = ""
       THEN Fail(Errorf("either FilePath or Text must be provided", 0, <<>>, ""))
       ELSE IF ~ParsesAsURL(apiClient.baseURL \o GeneratePath)
       THEN Fail(Errorf("failed to create request: %w", 0, <<>>, "url"))
       ELSE Do([method |-> "POST", url |-> apiClient.baseURL \o GeneratePath,
                headers |-> GenerateSchemaAuth(apiClient,
                    HeaderSet(NoHeaders, "Content-Type", "multipart/form-data")),
                body |-> [kind |-> "multipart",
                          parts |-> <<"docTypeCode", "countryCode">> \o
                                    (IF filePath # "" THEN <<"file", "useOCR">>
                                     ELSE <<"text">>)]])

\* the same called directly
GenerateSchemaCall(filePath, text) == GenerateSchemaCallFrom("", filePath, text)

\* Transport sending the request once more after a transport error
Transport_retriesOnError(outcomes) ==
    /\ pc = "inflight"
    /\ \E n \in outcomes :
        /\ net' = n
        /\ IF n.kind = "error" /\ nreq = 1
           THEN /\ nreq' = nreq + 1
                /\ UNCHANGED <<pc, ret>>
           ELSE /\ ret' = doRequestResult(call.result, n)
                /\ pc' = "returned"
                /\ nreq' = nreq
    /\ UNCHANGED <<call, req, clock>>

\* the transport returns and the operation in progress runs to its return
Transport(outcomes) ==
    /\ pc = "inflight"
    /\ \E n \in outcomes :
        /\ net' = n
        /\ ret' = CASE call.op = "MatchSchema" -> MatchSchemaResult(n)
                    [] call.op = "GenerateSchema" -> GenerateSchemaResult(n)
                    [] OTHER -> doRequestResult(call.result, n)
    /\ pc' = "returned"
    /\ UNCHANGED <<call, req, nreq, clock>>

(***************************************************************************)
(* SpecClient: package client used on its own.  A client built by New is   *)
(* called any number of times; every response the server can give is       *)
(* tried.                                                                  *)
(***************************************************************************)
LibConfigs ==
    [APIBaseURL : {DefaultAPIURL, <<"^">>}, APIKey : Keys, Timeout : {DefaultTimeout}]

NoEnv == [url |-> <<>>, key |-> "", timeout |-> <<>>]
NoArgs == [cmd |-> "", url |-> <<>>, key |-> "", json |-> FALSE]
Running == -1

InitClient ==
    /\ env = NoEnv /\ apiURL = <<>> /\ apiKey = "" /\ heap = <<>> /\ cfg = Nil
    /\ mode = "lib" /\ args = NoArgs /\ execErr = NoErr
    /\ stdin = 0 /\ stdout = 0 /\ out = "" /\ ps = NoPS /\ reader = NoReader
    /\ jsonOut = FALSE /\ JSONOutput = FALSE /\ stderr = 0
    /\ exitCode = Running
    /\ apiClient \in {New(c) : c \in LibConfigs}
    /\ pc = "idle" /\ call = NoCall /\ req = NoReq /\ nreq = 0 /\ net = NoNet
    /\ ret = NoRet /\ clock = 0

Health ==
    pc = "idle" /\ HealthCall /\ UNCHANGED <<cliVars, apiClient>>

DeleteDocType ==
    pc = "idle" /\ (\E code \in Codes : DeleteDocTypeCall(code))
    /\ UNCHANGED <<cliVars, apiClient>>

MatchSchema ==
    pc = "idle"
    /\ (\E f \in Files, cid \in Optional({"c1"}) : MatchSchemaCall(f, cid))
    /\ UNCHANGED <<cliVars, apiClient>>

GenerateSchema ==
    pc = "idle"
    /\ (\E f \in Files \cup {""}, t \in {"", "text"} : GenerateSchemaCall(f, t))
    /\ UNCHANGED <<cliVars, apiClient>>

\* schemasGenerateCmd.RunE up to the request (schemas.go:481-505); --doc-type
\* and --country are required flags and are given
schemasGenerateCmd ==
    /\ pc = "idle"
    /\ \E f \in Files \cup {""}, t \in {"", "text"} :
          IF f = "" /\ t = ""
          THEN /\ call' = [NoCall EXCEPT !.cmd = "schemas generate"]
               /\ net' = NoNet
               /\ Fail(Errorf("either --file or --text must be provided", 0, <<>>, ""))
          ELSE IF f # "" /\ t # ""
          THEN /\ call' = [NoCall EXCEPT !.cmd = "schemas generate", !.filePath = f,
                                         !.text = t]
               /\ net' = NoNet
               /\ Fail(Errorf("only one of --file or --text can be provided", 0, <<>>, ""))
          ELSE GenerateSchemaCallFrom("schemas generate", f, t)
    /\ UNCHANGED <<cliVars, apiClient>>

Respond ==
    Transport(NetOutcomes(Bodies)) /\ UNCHANGED <<cliVars, apiClient>>

\* the caller is done with the result and makes its next call
NextCall ==
    /\ pc = "returned"
    /\ pc' = "idle"
    /\ call' = NoCall /\ req' = NoReq /\ nreq' = 0 /\ net' = NoNet /\ ret' = NoRet
    /\ clock' = 0
    /\ UNCHANGED <<cliVars, apiClient>>

NextClient ==
    \/ Health
    \/ DeleteDocType
    \/ MatchSchema
    \/ GenerateSchema
    \/ Respond
    \/ NextCall

SpecClient == InitClient /\ [][NextClient]_vars


(***************************************************************************)
(* package config                                                          *)
(***************************************************************************)
Digits == {"0", "1", "2", "3", "4", "5", "6", "7", "8", "9"}

DigitValue(c) ==
    CASE c = "0" -> 0 [] c = "1" -> 1 [] c = "2" -> 2 [] c = "3" -> 3 [] c = "4" -> 4
      [] c = "5" -> 5 [] c = "6" -> 6 [] c = "7" -> 7 [] c = "8" -> 8 [] c = "9" -> 9

RECURSIVE DecimalValue(_)
DecimalValue(s) ==
    IF s = <<>> THEN 0
    ELSE 10 * DecimalValue(SubSeq(s, 1, Len(s) - 1)) + DigitValue(s[Len(s)])

\* strconv.Atoi: an optional sign, then one or more decimal digits
Atoi(s) ==
    LET signed == Len(s) > 0 /\ s[1] \in {"+", "-"}
        digits == IF signed THEN Tail(s) ELSE s
    IN  IF digits = <<>> \/ \E i \in 1..Len(digits) : digits[i] \notin Digits
        THEN [ok |-> FALSE, n |-> 0]
        ELSE [ok |-> TRUE,
              n |-> IF signed /\ s[1] = "-" THEN 0 - DecimalValue(digits)
                    ELSE DecimalValue(digits)]

NoConfig == [APIBaseURL |-> <<>>, APIKey |-> "", Timeout |-> 0]

\* config.Load (part_000:157-179) for the environment e: [err, cfg]
Load(e) ==
    LET url == IF e.url = <<>> THEN DefaultAPIURL ELSE e.url
        c == [APIBaseURL |-> url, APIKey |-> e.key, Timeout |-> DefaultTimeout]
    IN  IF e.timeout # <<>>
        THEN IF ~Atoi(e.timeout).ok
             THEN [err |-> Errorf("invalid SCHEMACTL_TIMEOUT: %w", 0, <<>>, "atoi"),
                   cfg |-> NoConfig]
             ELSE [err |-> NoErr, cfg |-> [c EXCEPT !.Timeout = Atoi(e.timeout).n]]
        ELSE [err |-> NoErr, cfg |-> c]

\* Validate that accepts every configuration
Validate_acceptsAll(c) == NoErr

\* Config.Validate (part_000:181-187)
Validate(c) ==
    IF c.APIBaseURL = <<>>
    THEN Errorf("API URL is required. Set SCHEMACTL_API_URL or use --api-url flag",
                0, <<>>, "")
    ELSE NoErr

\* WithAPIURL that leaves the URL as it is
WithAPIURL_ignored(c, url) == c

\* Config.WithAPIURL (part_000:194-200): the Config c points to after the call
WithAPIURL(c, url) ==
    IF url # <<>> THEN [c EXCEPT !.APIBaseURL = url] ELSE c

\* Config.WithAPIKey (part_000:202-208): the Config c points to after the call
WithAPIKey(c, key) ==
    IF key # "" THEN [c EXCEPT !.APIKey = key] ELSE c

(***************************************************************************)
(* package commands and main: the schemactl process.                       *)
(*                                                                         *)
(* Execute parses the flags into apiURL and apiKey and finds the command;  *)
(* PersistentPreRunE (initClient in the shell) runs Load, WithAPIURL,      *)
(* WithAPIKey, Validate and client.New one after the other; the command's  *)
(* RunE calls the client; main turns Execute's error into the exit status. *)
(***************************************************************************)
EnvURLs == {<<>>, <<"e">>, <<"e", "/">>}
FlagURLs == {<<>>, <<"f">>, <<"/">>}
EnvKeys == {"", "ek"}
FlagKeys == {"", "fk"}
EnvTimeouts == {<<>>, <<"1", "5">>, <<"5", "x">>}

Envs == [url : EnvURLs, key : EnvKeys, timeout : EnvTimeouts]

\* "" is schemactl without a subcommand, which starts the shell; "bogus" is a
\* command that does not exist
LaunchCmds == {"", "health", "version", "bogus"}
ShellCmds == {"health", "version", "bogus"}
CommandLines(cmds) == [cmd : cmds, url : FlagURLs, key : FlagKeys, json : BOOLEAN]

\* the responses tried for a command run from the process
CliBodies ==
    {<<>>, <<Junk>>, <<LBRACE, KeyStatus, StrMsg, RBRACE>>,
     <<LBRACE, KeyError, StrMsg, RBRACE>>}

Init ==
    /\ env \in Envs
    /\ args \in CommandLines(LaunchCmds)
    /\ apiURL = <<>> /\ apiKey = ""
    /\ heap = <<>> /\ cfg = Nil /\ apiClient = NoClient
    /\ mode = "oneshot" /\ pc = "main" /\ execErr = NoErr
    /\ call = NoCall /\ req = NoReq /\ nreq = 0 /\ net = NoNet /\ ret = NoRet
    /\ clock = 0
    /\ stdin = 0 /\ stdout = 0 /\ out = "" /\ ps = NoPS /\ reader = NoReader
    /\ jsonOut = FALSE /\ JSONOutput = FALSE /\ stderr = 0
    /\ exitCode = Running

\* cobra's Command.Execute up to PersistentPreRunE, for the command line a
\* and the values url0, key0 and json0 the flag variables hold since the
\* flags were registered: an unknown command is an error before any flag is
\* parsed; a flag that is given is parsed into its variable; help and version
\* skip the initialisation (part_004:79-83, 118-120, part_006:129-133, 138-140)
Dispatch(a, url0, key0, json0) ==
    /\ args' = a
    /\ call' = NoCall /\ req' = NoReq /\ nreq' = 0 /\ net' = NoNet /\ ret' = NoRet
    /\ clock' = 0
    /\ IF a.cmd = "bogus"
       THEN /\ apiURL' = url0 /\ apiKey' = key0 /\ jsonOut' = json0
            /\ execErr' = Errorf("unknown command %q for %q", 0, <<>>, "")
            /\ pc' = "executed"
       ELSE /\ apiURL' = (IF a.url # <<>> THEN a.url ELSE url0)
            /\ apiKey' = (IF a.key # "" THEN a.key ELSE key0)
            /\ jsonOut' = (a.json \/ json0)
            /\ execErr' = NoErr
            /\ pc' = IF a.cmd = "version" THEN "executed" ELSE "Load"

\* commands.Execute called by main (main.go:10, part_004:112-115)
Execute ==
    /\ pc = "main"
    /\ Dispatch(args, apiURL, apiKey, jsonOut)
    /\ UNCHANGED <<env, heap, cfg, apiClient, mode, stdin, stdout, out, ps, reader,
                   JSONOutput, stderr, exitCode>>

\* cfg, err = config.Load() (part_004:86-90, part_006:900-904)
PreRunLoad ==
    /\ pc = "Load"
    /\ LET l == Load(env)
       IN  IF l.err # NoErr
           THEN /\ execErr' = l.err /\ pc' = "executed"
                /\ heap' = <<>> /\ cfg' = Nil
           ELSE /\ heap' = <<l.cfg>> /\ cfg' = 1
                /\ pc' = "WithAPIURL" /\ UNCHANGED execErr
    /\ UNCHANGED <<env, apiURL, apiKey, apiClient, mode, args, callVars, stdin,
                   stdout, out, ps, reader, jsonOut, JSONOutput, stderr, exitCode>>

\* cfg.WithAPIURL(apiURL) (part_004:93, part_006:905): the method writes
\* through its receiver and returns it
PreRunWithAPIURL ==
    /\ pc = "WithAPIURL"
    /\ heap' = [heap EXCEPT ![cfg] = WithAPIURL(heap[cfg], apiURL)]
    /\ pc' = "WithAPIKey"
    /\ UNCHANGED <<env, apiURL, apiKey, cfg, apiClient, mode, args, execErr,
                   callVars, stdin, stdout, out, ps, reader, jsonOut, JSONOutput, stderr, exitCode>>

\* .WithAPIKey(apiKey) on the pointer WithAPIURL returned (part_004:93)
PreRunWithAPIKey ==
    /\ pc = "WithAPIKey"
    /\ heap' = [heap EXCEPT ![cfg] = WithAPIKey(heap[cfg], apiKey)]
    /\ pc' = "Validate"
    /\ UNCHANGED <<env, apiURL, apiKey, cfg, apiClient, mode, args, execErr,
                   callVars, stdin, stdout, out, ps, reader, jsonOut, JSONOutput, stderr, exitCode>>

\* cfg.Validate() (part_004:95-98, part_006:906-908)
PreRunValidate ==
    /\ pc = "Validate"
    /\ IF Validate(heap[cfg]) # NoErr
       THEN execErr' = Validate(heap[cfg]) /\ pc' = "executed"
       ELSE pc' = "New" /\ UNCHANGED execErr
    /\ UNCHANGED <<env, apiURL, apiKey, heap, cfg, apiClient, mode, args,
                   callVars, stdin, stdout, out, ps, reader, jsonOut, JSONOutput, stderr, exitCode>>

\* apiClient = client.New(cfg) (part_004:103-106, part_006:910-911)
PreRunNew ==
    /\ pc = "New"
    /\ JSONOutput' = jsonOut
    /\ apiClient' = New(heap[cfg])
    /\ pc' = "RunE"
    /\ UNCHANGED <<env, apiURL, apiKey, heap, cfg, mode, args, execErr,
                   callVars, stdin, stdout, out, ps, reader, jsonOut, stderr, exitCode>>

\* healthCmd.RunE up to the request (part_008:14-15, part_006:168-169)
healthCmd ==
    /\ pc = "RunE" /\ args.cmd = "health"
    /\ HealthCall
    /\ UNCHANGED <<cliVars, apiClient>>

\* the transport answers the command's request
RespondCli ==
    Transport(NetOutcomes(CliBodies)) /\ UNCHANGED <<cliVars, apiClient>>

\* healthCmd.RunE from the return of Health on (part_008:16-38)
healthCmdReturn ==
    /\ pc = "returned"
    /\ execErr' = ret.err
    /\ pc' = "executed"
    /\ UNCHANGED <<env, apiURL, apiKey, heap, cfg, apiClient, mode, args,
                   callVars, stdin, stdout, out, ps, reader, jsonOut, JSONOutput, stderr, exitCode>>

\* rootCmd.RunE: no subcommand starts the shell (part_004:75-78)
rootCmdRunE ==
    /\ pc = "RunE" /\ args.cmd = ""
    /\ mode' = "shell"
    /\ pc' = "prompt"
    /\ UNCHANGED <<env, apiURL, apiKey, heap, cfg, apiClient, args, execErr,
                   callVars, stdin, stdout, out, ps, reader, jsonOut, JSONOutput, stderr, exitCode>>

\* the alternative modelled for comparison: the shell runs every line on one
\* command tree, whose flag variables keep what an earlier line parsed
executeShellCommand_sameTree ==
    /\ pc = "prompt" /\ stdin < MaxLines
    /\ stdin' = stdin + 1
    /\ \E line \in CommandLines(ShellCmds) : Dispatch(line, apiURL, apiKey, jsonOut)
    /\ UNCHANGED <<env, heap, cfg, apiClient, mode, stdout, out, ps, reader, JSONOutput,
                   stderr, exitCode>>

\* RunShell reads a command line and executeShellCommand runs it on a fresh
\* command tree, whose flag definitions reset apiURL and apiKey
\* (part_006:37-72, 113-117, 138-139)
executeShellCommand ==
    /\ pc = "prompt" /\ stdin < MaxLines
    /\ stdin' = stdin + 1
    /\ \E line \in CommandLines(ShellCmds) : Dispatch(line, <<>>, "", FALSE)
    /\ UNCHANGED <<env, heap, cfg, apiClient, mode, stdout, out, ps, reader, JSONOutput,
                   stderr, exitCode>>

\* the alternative modelled for comparison: a command's error ends RunShell
executeShellCommandReturn_endsOnError ==
    /\ pc = "executed" /\ mode = "shell"
    /\ stdout' = IF execErr # NoErr THEN stdout + 1 ELSE stdout
    /\ out' = out /\ ps' = ps
    /\ UNCHANGED <<reader, jsonOut, JSONOutput>>
    /\ IF execErr # NoErr
       THEN pc' = "executed" /\ mode' = "oneshot"
       ELSE pc' = "prompt" /\ mode' = "shell"
    /\ UNCHANGED <<env, apiURL, apiKey, heap, cfg, apiClient, args, execErr,
                   callVars, stdin, stderr, exitCode>>

\* executeShellCommand after cmd.Execute (part_006:117-120)
executeShellCommandReturn ==
    /\ pc = "executed" /\ mode = "shell"
    /\ stdout' = IF execErr # NoErr THEN stdout + 1 ELSE stdout
    /\ out' = out /\ ps' = ps
    /\ UNCHANGED <<reader, jsonOut, JSONOutput>>
    /\ pc' = "prompt"
    /\ UNCHANGED <<env, apiURL, apiKey, heap, cfg, apiClient, mode, args, execErr,
                   callVars, stdin, stderr, exitCode>>

\* RunShell ends on exit, quit, q or end of input and returns nil, and so do
\* rootCmd.RunE and Execute (part_006:39-57)
RunShellReturn ==
    /\ pc = "prompt"
    /\ mode' = "oneshot"
    /\ execErr' = NoErr
    /\ pc' = "executed"
    /\ UNCHANGED <<env, apiURL, apiKey, heap, cfg, apiClient, args, callVars,
                   stdin, stdout, out, ps, reader, jsonOut, JSONOutput, stderr, exitCode>>

\* main after Execute (main.go:10-12)
main ==
    /\ pc = "executed" /\ mode = "oneshot"
    /\ exitCode' = IF execErr # NoErr THEN 1 ELSE 0
    /\ pc' = "exit"
    /\ UNCHANGED <<env, apiURL, apiKey, heap, cfg, apiClient, mode, args, execErr,
                   callVars, stdin, stdout, out, ps, reader, jsonOut, JSONOutput, stderr>>

Next ==
    \/ Execute
    \/ PreRunLoad
    \/ PreRunWithAPIURL
    \/ PreRunWithAPIKey
    \/ PreRunValidate
    \/ PreRunNew
    \/ healthCmd
    \/ RespondCli
    \/ healthCmdReturn
    \/ rootCmdRunE
    \/ executeShellCommand
    \/ executeShellCommandReturn
    \/ RunShellReturn
    \/ main

Spec == Init /\ [][Next]_vars

(***************************************************************************)
(* Claims about package client, checked under SpecClient.                  *)
(***************************************************************************)
APIErrorFormat == "API error (%d): %s"
TransportErrorFormat == "request failed: %w"
DecodeErrorFormat == "failed to decode response: %w"

Returned == pc = "returned" /\ ret.done
Answered == Returned /\ net.kind = "response"
Failed == ret.err # NoErr

\* the bodies, of at most five tokens, that are an error payload with a
\* non-empty message:  { "error": "msg" }
HasErrorMessage(b) ==
    \E s \in StrTokens : b = <<LBRACE, KeyError, s, RBRACE>> /\ Unquote(s) # ""

ErrorMessage(b) == Unquote(b[3])

\* C1: every request sent by doRequest, MatchSchema or GenerateSchema carries
\* "Authorization: Bearer <key>" exactly when the client's API key is not
\* empty; with an empty key the header is absent.
C1_AuthHeaderIffKey ==
    nreq > 0 =>
        /\ ("Authorization" \in DOMAIN req.headers) <=> (apiClient.apiKey # "")
        /\ "Authorization" \in DOMAIN req.headers =>
               req.headers["Authorization"] = "Bearer " \o apiClient.apiKey

C1_Witness ==
    /\ pc = "inflight" /\ call.op = "MatchSchema" /\ apiClient.apiKey = "k"
    /\ "Authorization" \in DOMAIN req.headers
    /\ req.headers["Authorization"] = "Bearer k"

\* C2: a response with status >= 400 whose body is an error payload with a
\* non-empty message makes the operation fail with an API error that carries
\* the status code and exactly that message, and no result.
C2_APIErrorHasDecodedMessage ==
    (Answered /\ net.status >= 400 /\ HasErrorMessage(net.body)) =>
        /\ ret.err.format = APIErrorFormat
        /\ ret.err.status = net.status
        /\ ret.err.text = <<ErrorMessage(net.body)>>
        /\ ret.err.text # net.body
        /\ ~ret.result.ok

C2_Witness ==
    /\ Answered /\ call.op = "Health" /\ net.status = 400
    /\ net.body = <<LBRACE, KeyError, StrMsg, RBRACE>>
    /\ ret.err = Errorf(APIErrorFormat, 400, <<"msg">>, "")

\* C3: a response with status >= 400 whose body is no error payload with a
\* message (not JSON, JSON without an error string, an empty error) makes the
\* operation fail with an API error that carries the status code and the raw
\* body; a status >= 400 never gives a successful result.
C3_APIErrorHasRawBody ==
    (Answered /\ net.status >= 400) =>
        /\ Failed /\ ~ret.result.ok
        /\ ~HasErrorMessage(net.body) =>
               /\ ret.err.format = APIErrorFormat
               /\ ret.err.status = net.status
               /\ ret.err.text = net.body

C3_Witness ==
    /\ Answered /\ call.op = "Health" /\ net.status = 500
    /\ net.body = <<LBRACE, KeyError, StrEmpty, RBRACE>>
    /\ ret.err = Errorf(APIErrorFormat, 500, net.body, "")

\* the bodies, of at most five tokens, that json.Unmarshal accepts for a
\* HealthResponse: an object whose member, if any, is a string, or is an
\* object under a name HealthResponse does not have
ValidHealthResponse(b) ==
    \/ b = <<LBRACE, RBRACE>>
    \/ \E k \in KeyTokens, s \in StrTokens : b = <<LBRACE, k, s, RBRACE>>
    \/ b = <<LBRACE, KeyError, LBRACE, RBRACE, RBRACE>>

UploadOps == {"MatchSchema", "GenerateSchema"}

\* C5 as claimed: for every response the upload operations end in the outcome
\* doRequest gives for the same status and body.
C5_UploadSameAsDoRequest ==
    (Answered /\ call.op \in UploadOps) =>
        ret.err = doRequestResult(call.result, net).err

\* C5, amended: the upload operations set the Authorization header as
\* doRequest does and end in the outcome doRequest gives for the same status
\* and body, except for an empty body with status < 400, where doRequest
\* succeeds with a zero value and the upload operations fail with a decode
\* error.
C5_UploadSameExceptEmptyBody ==
    /\ (nreq > 0 /\ call.op \in UploadOps) =>
           \A h \in {"Authorization"} :
               /\ h \in DOMAIN req.headers <=> h \in DOMAIN doRequestAuth(apiClient, NoHeaders)
               /\ h \in DOMAIN req.headers =>
                      req.headers[h] = doRequestAuth(apiClient, NoHeaders)[h]
    /\ (Returned /\ net.kind # "none" /\ call.op \in UploadOps) =>
           IF net.kind = "response" /\ net.status < 400 /\ net.body = <<>>
           THEN /\ ret.err.format = DecodeErrorFormat
                /\ doRequestResult(call.result, net).err = NoErr
           ELSE ret = doRequestResult(call.result, net)

C5_Witness ==
    /\ Answered /\ call.op = "GenerateSchema" /\ net.status = 200 /\ net.body = <<>>
    /\ ret.err.format = DecodeErrorFormat

\* C6: a failure with no response from the server is reported as a transport
\* error, a response with status >= 400 as an API error, the two forms differ,
\* and every failure has exactly one of the forms the client produces.
ErrorFormats ==
    {"failed to create request: %w", "failed to open file: %w",
     "either FilePath or Text must be provided", TransportErrorFormat,
     "failed to read response body: %w", APIErrorFormat, DecodeErrorFormat}

C6_TransportErrorDistinct ==
    Returned =>
        /\ net.kind = "error" =>
               ret.err.format = TransportErrorFormat /\ ret.err.cause = net.cause
        /\ (net.kind = "response" /\ net.status >= 400) =>
               ret.err.format = APIErrorFormat /\ ret.err.cause = ""
        /\ ret.err.format = TransportErrorFormat => net.kind = "error"
        /\ ret.err.format = APIErrorFormat =>
               net.kind = "response" /\ net.status >= 400
        /\ Failed => ret.err.format \in ErrorFormats

C6_Witness ==
    /\ Returned /\ call.op = "Health" /\ net.kind = "error" /\ net.cause = "timeout"
    /\ ret.err.format = TransportErrorFormat

(***************************************************************************)
(* PersistentPreRunE from cfg.Validate() on, for every Config value: the   *)
(* specification under which Validate is checked on an empty base URL,     *)
(* which Load and WithAPIURL never produce.                                *)
(***************************************************************************)
Configs ==
    [APIBaseURL : {<<>>, <<"e">>, <<"e", "/">>, DefaultAPIURL}, APIKey : EnvKeys,
     Timeout : {DefaultTimeout, 15}]

InitValidate ==
    /\ env = NoEnv /\ apiURL = <<>> /\ apiKey = ""
    /\ args = [NoArgs EXCEPT !.cmd = "health"]
    /\ \E c \in Configs : heap = <<c>>
    /\ cfg = 1 /\ apiClient = NoClient
    /\ mode = "oneshot" /\ pc = "Validate" /\ execErr = NoErr
    /\ call = NoCall /\ req = NoReq /\ nreq = 0 /\ net = NoNet /\ ret = NoRet
    /\ clock = 0
    /\ stdin = 0 /\ stdout = 0 /\ out = "" /\ ps = NoPS /\ reader = NoReader
    /\ jsonOut = FALSE /\ JSONOutput = FALSE /\ stderr = 0
    /\ exitCode = Running

NextValidate ==
    \/ PreRunValidate
    \/ PreRunNew
    \/ healthCmd
    \/ RespondCli
    \/ healthCmdReturn
    \/ main

SpecValidate == InitValidate /\ [][NextValidate]_vars

(***************************************************************************)
(* Claims about the schemactl process, checked under Spec, and about       *)
(* Validate, checked under SpecValidate.                                   *)
(***************************************************************************)
ValidateErrorFormat ==
    "API URL is required. Set SCHEMACTL_API_URL or use --api-url flag"

\* a command has just ended in an error
CommandFailed == pc = "executed" /\ execErr # NoErr

\* C7: for every failed operation, run as a one-shot command or from the
\* interactive shell, the step that handles the command's error prints exactly
\* one error message and ends the process with a non-zero exit status.
C7_FailurePrintsOnceAndExitsNonZero ==
    [][CommandFailed =>
          /\ stdout' + stderr' = stdout + stderr + 1
          /\ exitCode' \notin {Running, 0}]_vars

\* C8: WithAPIURL and WithAPIKey leave the Config they are called on as it
\* was: the Config cfg points to is the same before and after each call.
C8_SettersLeaveReceiverUnchanged ==
    [][(pc \in {"WithAPIURL", "WithAPIKey"}) => heap'[cfg] = heap[cfg]]_vars

\* the value of one setting drawn from flag, environment and default, where
\* the empty value is a flag not given or a variable not set
Resolve(flag, environment, default, empty) ==
    IF flag # empty THEN flag
    ELSE IF environment # empty THEN environment
    ELSE default

ResolvedTimeout ==
    IF env.timeout # <<>> THEN Atoi(env.timeout).n ELSE DefaultTimeout

\* C9: whenever a command runs with a client, the Config and the client
\* carry, for the URL and the key, the flag's value when the flag is given,
\* otherwise the environment's value when set, otherwise the default (the
\* default URL, no key), and for the timeout the value of SCHEMACTL_TIMEOUT
\* when set, otherwise 30 seconds; the request is sent to that URL with that
\* key.
C9_FlagOverEnvOverDefault ==
    pc \in {"RunE", "inflight", "returned"} =>
        LET url == Resolve(args.url, env.url, DefaultAPIURL, <<>>)
            key == Resolve(args.key, env.key, "", "")
        IN  /\ heap[cfg] = [APIBaseURL |-> url, APIKey |-> key,
                            Timeout |-> ResolvedTimeout]
            /\ apiClient = [alloc |-> TRUE, baseURL |-> TrimSuffix(url),
                            apiKey |-> key, timeout |-> ResolvedTimeout]
            /\ pc = "inflight" =>
                   /\ req.url = TrimSuffix(url) \o HealthPath
                   /\ ("Authorization" \in DOMAIN req.headers) = (key # "")
                   /\ key # "" => req.headers["Authorization"] = "Bearer " \o key

\* a shell command given both flags, with both variables and the timeout set
\* in the environment, has sent its request
C9_Witness ==
    /\ pc = "inflight" /\ mode = "shell"
    /\ args.url = <<"f">> /\ env.url = <<"e">>
    /\ args.key = "fk" /\ env.key = "ek"
    /\ env.timeout = <<"1", "5">>
    /\ apiClient.baseURL = <<"f">> /\ apiClient.timeout = 15

\* C10: once Validate has run on a Config whose base URL is empty, the command
\* has failed with the configuration error, no client exists and no request
\* was sent, up to and including the exit of the process.
C10_EmptyURLFailsBeforeClient ==
    (pc # "Validate" /\ heap[cfg].APIBaseURL = <<>>) =>
        /\ execErr.format = ValidateErrorFormat
        /\ pc \in {"executed", "exit"}
        /\ apiClient = NoClient
        /\ nreq = 0 /\ req = NoReq

\* the process has exited after Validate rejected an empty base URL
C10_Witness ==
    /\ pc = "exit" /\ exitCode = 1
    /\ heap[cfg].APIBaseURL = <<>>
    /\ execErr.format = ValidateErrorFormat

(***************************************************************************)
(* SpecTimeout: a client built from a configuration Load accepted calls    *)
(* Health while time passes.  The server may answer at any moment or       *)
(* never; http.Client gives up when its deadline is reached, and sets no   *)
(* deadline when its Timeout is zero or negative.                          *)
(***************************************************************************)
MaxOverrun == 2     \* seconds a call is followed past the default timeout

Horizon == DefaultTimeout + MaxOverrun

TimeoutEnvs ==
    [url : {<<>>}, key : {""},
     timeout : {<<>>, <<"1">>, <<"2">>, <<"0">>, <<"-", "1">>}]

\* http.Client.Timeout as New sets it (client.go:32-34): only a positive
\* duration is a deadline
HasDeadline(c) == c.timeout > 0

InitTimeout ==
    /\ env \in TimeoutEnvs
    /\ Load(env).err = NoErr
    /\ heap = <<Load(env).cfg>> /\ cfg = 1
    /\ apiClient = New(heap[cfg])
    /\ apiURL = <<>> /\ apiKey = ""
    /\ mode = "lib" /\ args = NoArgs /\ execErr = NoErr
    /\ pc = "idle" /\ call = NoCall /\ req = NoReq /\ nreq = 0 /\ net = NoNet
    /\ ret = NoRet /\ clock = 0
    /\ stdin = 0 /\ stdout = 0 /\ out = "" /\ ps = NoPS /\ reader = NoReader
    /\ jsonOut = FALSE /\ JSONOutput = FALSE /\ stderr = 0
    /\ exitCode = Running

\* a second passes while httpClient.Do waits for the server (client.go:59)
Tick ==
    /\ pc = "inflight" /\ clock < Horizon
    /\ HasDeadline(apiClient) => clock < apiClient.timeout
    /\ clock' = clock + 1
    /\ UNCHANGED <<cliVars, apiClient, pc, call, req, nreq, net, ret>>

\* the deadline of http.Client is reached: Do returns a timeout error
Deadline ==
    /\ HasDeadline(apiClient) /\ clock = apiClient.timeout
    /\ Transport({[kind |-> "error", status |-> 0, body |-> <<>>,
                   cause |-> "timeout"]})
    /\ UNCHANGED <<cliVars, apiClient>>

\* the server answers, or the connection fails, before any deadline
Answer ==
    /\ Transport({n \in NetOutcomes(CliBodies) : n.cause # "timeout"})
    /\ UNCHANGED <<cliVars, apiClient>>

NextTimeout ==
    \/ Health
    \/ Tick
    \/ Deadline
    \/ Answer
    \/ NextCall

SpecTimeout == InitTimeout /\ [][NextTimeout]_vars

\* the seconds after which a timeout of t seconds has elapsed
Elapsed(t) == IF t > 0 THEN t ELSE 0

\* C11: for every configuration Load accepts, a call is never still waiting
\* for the server after the configured timeout has elapsed: at that point it
\* has failed with the timeout error and returned.
C11_CallReturnsByDeadline ==
    pc = "inflight" => clock <= Elapsed(apiClient.timeout)

(***************************************************************************)
(* Resource operations: the request each one builds.                       *)
(***************************************************************************)
SchemasPath == <<"/", "a", "d", "m", "i", "n", "/", "s", "c", "h", "e", "m", "a", "s">>

KeyCountryCode == <<"c", "o", "u", "n", "t", "r", "y", "C", "o", "d", "e">>
KeyCustomerId == <<"c", "u", "s", "t", "o", "m", "e", "r", "I", "d">>
KeyDocTypeCode == <<"d", "o", "c", "T", "y", "p", "e", "C", "o", "d", "e">>
KeyLimit == <<"l", "i", "m", "i", "t">>
KeyOffset == <<"o", "f", "f", "s", "e", "t">>
KeyStatusParam == <<"s", "t", "a", "t", "u", "s">>
KeyVisibility == <<"v", "i", "s", "i", "b", "i", "l", "i", "t", "y">>

\* the query keys in the order url.Values.Encode writes them: sorted
SortedKeys ==
    <<KeyCountryCode, KeyCustomerId, KeyDocTypeCode, KeyLimit, KeyOffset,
      KeyStatusParam, KeyVisibility>>

\* url.QueryEscape: a space becomes "+", every other reserved byte its code
RECURSIVE QueryEscape(_)
QueryEscape(s) ==
    IF s = <<>> THEN <<>>
    ELSE (IF Head(s) = " " THEN <<"+">>
          ELSE IF Head(s) \in DOMAIN EscapeCode THEN EscapeCode[Head(s)]
          ELSE <<Head(s)>>) \o QueryEscape(Tail(s))

\* strconv.Itoa
RECURSIVE Itoa(_)
Itoa(n) ==
    IF n < 0 THEN <<"-">> \o Itoa(0 - n)
    ELSE IF n < 10 THEN <<CHOOSE d \in Digits : DigitValue(d) = n>>
    ELSE Itoa(n \div 10) \o Itoa(n % 10)

\* url.Values.Encode for params, a function from keys to values:
\* key=value pairs joined by "&", keys from position i of SortedKeys on
RECURSIVE Encode(_, _)
Encode(params, i) ==
    IF i > Len(SortedKeys) THEN <<>>
    ELSE LET k == SortedKeys[i]
             rest == Encode(params, i + 1)
         IN  IF k \notin DOMAIN params THEN rest
             ELSE QueryEscape(k) \o <<"=">> \o QueryEscape(params[k])
                  \o (IF rest = <<>> THEN <<>> ELSE <<"&">> \o rest)

\* url.Values.Set
ValuesSet(params, k, v) ==
    [x \in DOMAIN params \cup {k} |-> IF x = k THEN v ELSE params[x]]

NoValues == [k \in {} |-> <<>>]

OptionalSeq(S) == [set : {FALSE}, v : {<<>>}] \cup [set : {TRUE}, v : S]
Unset == [set |-> FALSE, v |-> <<>>]
Ptr(v) == [set |-> TRUE, v |-> v]

\* ListSchemasOptions (part_002:195-203); nil is TRUE for a nil opts pointer
NilOptions ==
    [nil |-> TRUE, Status |-> Unset, DocType |-> Unset, Country |-> Unset,
     Visibility |-> Unset, CustomerID |-> Unset, Limit |-> 0, Offset |-> 0]

StatusValues == {<<>>, <<"a", "c", "t", "i", "v", "e">>}
CustomerValues == {<<"a", "&", "b", "=", "c", " ", "d">>}
LimitValues == {0 - 1, 0, 50}
OffsetValues == {0, 10}

ListOptions ==
    {NilOptions} \cup
    [nil : {FALSE}, Status : OptionalSeq(StatusValues),
     DocType : OptionalSeq({<<"I">>}), Country : OptionalSeq({<<"P", "T">>}),
     Visibility : OptionalSeq({<<"p">>}),
     CustomerID : OptionalSeq(CustomerValues),
     Limit : LimitValues, Offset : OffsetValues]

\* the params ListSchemas collects (client.go:197-220)
ListSchemasParams(opts) ==
    LET p1 == IF opts.Status.set
              THEN ValuesSet(NoValues, KeyStatusParam, opts.Status.v) ELSE NoValues
        p2 == IF opts.DocType.set
              THEN ValuesSet(p1, KeyDocTypeCode, opts.DocType.v) ELSE p1
        p3 == IF opts.Country.set
              THEN ValuesSet(p2, KeyCountryCode, opts.Country.v) ELSE p2
        p4 == IF opts.Visibility.set
              THEN ValuesSet(p3, KeyVisibility, opts.Visibility.v) ELSE p3
        p5 == IF opts.CustomerID.set
              THEN ValuesSet(p4, KeyCustomerId, opts.CustomerID.v) ELSE p4
        p6 == IF opts.Limit > 0 THEN ValuesSet(p5, KeyLimit, Itoa(opts.Limit)) ELSE p5
        p7 == IF opts.Offset > 0 THEN ValuesSet(p6, KeyOffset, Itoa(opts.Offset)) ELSE p6
    IN  IF opts.nil THEN NoValues ELSE p7

\* ListSchemasPath that always appends the query
ListSchemasPath_alwaysQuery(opts) ==
    SchemasPath \o <<"?">> \o Encode(ListSchemasParams(opts), 1)

\* the path of ListSchemas (client.go:222-225)
ListSchemasPath(opts) ==
    LET params == ListSchemasParams(opts)
    IN  IF DOMAIN params # {}
        THEN SchemasPath \o <<"?">> \o Encode(params, 1)
        ELSE SchemasPath

\* Client.ListSchemas up to httpClient.Do (client.go:196-228)
ListSchemasCall(cmd, in, opts) ==
    /\ call' = [NoCall EXCEPT !.op = "ListSchemas", !.result = "PaginatedSchemaList",
                              !.cmd = cmd, !.in = in]
    /\ net' = NoNet
    /\ doRequest(apiClient, "GET", ListSchemasPath(opts), NoBody)

\* the flags of "schemas list" as cobra returns them: a flag that is not
\* given has its default, "" for the filters, 50 for --limit, 0 for --offset
\* (schemas.go:34-40)
DefaultLimit == 50

ListFlags ==
    [status : StatusValues, docType : {<<>>, <<"I">>}, country : {<<>>, <<"P", "T">>},
     visibility : {<<>>, <<"p">>}, customerID : {<<>>} \cup CustomerValues,
     limit : {DefaultLimit, 0, 10}, offset : OffsetValues]

FlagPtr(v) == IF v # <<>> THEN Ptr(v) ELSE Unset

\* the options schemasListCmd builds from its flags (schemas.go:89-107,
\* part_006:203-225)
schemasListOptions(f) ==
    [nil |-> FALSE, Status |-> FlagPtr(f.status), DocType |-> FlagPtr(f.docType),
     Country |-> FlagPtr(f.country), Visibility |-> FlagPtr(f.visibility),
     CustomerID |-> FlagPtr(f.customerID), Limit |-> f.limit, Offset |-> f.offset]

(***************************************************************************)
(* SpecOps: the resource operations of one client, called directly and     *)
(* from the commands that wrap them, with every argument tried.            *)
(***************************************************************************)
OpsConfigs == [APIBaseURL : {DefaultAPIURL}, APIKey : Keys, Timeout : {DefaultTimeout}]

OpsBodies == {<<>>, <<Junk>>, <<LBRACE, KeyError, StrMsg, RBRACE>>}

InitOps ==
    /\ env = NoEnv /\ apiURL = <<>> /\ apiKey = "" /\ heap = <<>> /\ cfg = Nil
    /\ mode = "lib" /\ args = NoArgs /\ execErr = NoErr
    /\ stdin = 0 /\ stdout = 0 /\ out = "" /\ ps = NoPS /\ reader = NoReader
    /\ jsonOut = FALSE /\ JSONOutput = FALSE /\ stderr = 0
    /\ exitCode = Running
    /\ apiClient \in {New(c) : c \in OpsConfigs}
    /\ pc = "idle" /\ call = NoCall /\ req = NoReq /\ nreq = 0 /\ net = NoNet
    /\ ret = NoRet /\ clock = 0

ListSchemas ==
    /\ pc = "idle"
    /\ \E opts \in ListOptions : ListSchemasCall("", opts, opts)
    /\ UNCHANGED <<cliVars, apiClient>>

\* schemasListCmd.RunE up to the request (schemas.go:88-109)
schemasListCmd ==
    /\ pc = "idle"
    /\ \E f \in ListFlags : ListSchemasCall("schemas list", f, schemasListOptions(f))
    /\ UNCHANGED <<cliVars, apiClient>>

\* the bodies a server of find-best can send besides: a match, no match,
\* an empty object, a match without its type and a schema of the wrong type
FoundBody ==
    <<LBRACE, KeyToken("schema"), LBRACE, KeyToken("publicId"), Quote("x"), COMMA,
      KeyToken("name"), Quote("x"), RBRACE, COMMA, KeyToken("matchType"),
      Quote("exact"), RBRACE>>
NotFoundBody ==
    <<LBRACE, KeyToken("schema"), NULL, COMMA, KeyToken("matchType"), NULL, RBRACE>>
FindBestBodies ==
    {FoundBody, NotFoundBody, <<LBRACE, RBRACE>>,
     <<LBRACE, KeyToken("schema"), LBRACE, RBRACE, COMMA, KeyToken("matchType"), NULL,
       RBRACE>>,
     <<LBRACE, KeyToken("schema"), Quote("x"), RBRACE>>}

\* the bodies tried for the call in flight; a server of create-schema can
\* also echo the request body
BodiesFor(op) ==
    OpsBodies
    \cup (IF op = "FindBestSchema" THEN FindBestBodies ELSE {})
    \cup (IF op = "CreateSchema" THEN {req.body.parts} ELSE {})

RespondOps ==
    Transport(NetOutcomes(BodiesFor(call.op))) /\ UNCHANGED <<cliVars, apiClient>>

(***************************************************************************)
(* Claims about the resource operations, checked under SpecOps.            *)
(***************************************************************************)
\* the position of the first c in s, 0 when there is none
IndexOf(s, c) ==
    IF \E i \in 1..Len(s) : s[i] = c
    THEN CHOOSE i \in 1..Len(s) : s[i] = c /\ \A j \in 1..(i - 1) : s[j] # c
    ELSE 0

\* what the server reads: the URL has a query part, and its text
HasQuery(u) == IndexOf(u, "?") > 0
RawQuery(u) == IF HasQuery(u) THEN SubSeq(u, IndexOf(u, "?") + 1, Len(u)) ELSE <<>>
PathOf(u) == IF HasQuery(u) THEN SubSeq(u, 1, IndexOf(u, "?") - 1) ELSE u

\* percent-decoding as the server does it; plus is TRUE in a query, where
\* "+" is a space
RECURSIVE Unescape(_, _)
Unescape(s, plus) ==
    IF s = <<>> THEN <<>>
    ELSE IF plus /\ Head(s) = "+" THEN <<" ">> \o Unescape(Tail(s), plus)
    ELSE IF Head(s) = "%" /\ Len(s) >= 3
    THEN <<CHOOSE c \in DOMAIN EscapeCode : EscapeCode[c] = SubSeq(s, 1, 3)>>
         \o Unescape(SubSeq(s, 4, Len(s)), plus)
    ELSE <<Head(s)>> \o Unescape(Tail(s), plus)

\* the key/value pairs the server finds in the query text q
RECURSIVE QueryPairs(_)
QueryPairs(q) ==
    IF q = <<>> THEN {}
    ELSE LET a == IndexOf(q, "&")
             first == IF a = 0 THEN q ELSE SubSeq(q, 1, a - 1)
             rest == IF a = 0 THEN <<>> ELSE SubSeq(q, a + 1, Len(q))
             e == IndexOf(first, "=")
             k == IF e = 0 THEN first ELSE SubSeq(first, 1, e - 1)
             v == IF e = 0 THEN <<>> ELSE SubSeq(first, e + 1, Len(first))
         IN  {<<Unescape(k, TRUE), Unescape(v, TRUE)>>} \cup QueryPairs(rest)

Listing == call.op = "ListSchemas" /\ nreq = 1

\* the pairs a direct ListSchemas call with options o is to send: one for
\* each option that is set
OptionPairs(o) ==
    {<<KeyStatusParam, o.Status.v>> : x \in {1} \cap {IF o.Status.set THEN 1 ELSE 0}}
    \cup {<<KeyDocTypeCode, o.DocType.v>> : x \in {1} \cap {IF o.DocType.set THEN 1 ELSE 0}}
    \cup {<<KeyCountryCode, o.Country.v>> : x \in {1} \cap {IF o.Country.set THEN 1 ELSE 0}}
    \cup {<<KeyVisibility, o.Visibility.v>> : x \in {1} \cap {IF o.Visibility.set THEN 1 ELSE 0}}
    \cup {<<KeyCustomerId, o.CustomerID.v>> : x \in {1} \cap {IF o.CustomerID.set THEN 1 ELSE 0}}

\* the pairs "schemas list" with flags f is to send: one for each filter flag
\* with a value
FlagPairs(f) ==
    {<<KeyStatusParam, f.status>> : x \in {1} \cap {IF f.status # <<>> THEN 1 ELSE 0}}
    \cup {<<KeyDocTypeCode, f.docType>> : x \in {1} \cap {IF f.docType # <<>> THEN 1 ELSE 0}}
    \cup {<<KeyCountryCode, f.country>> : x \in {1} \cap {IF f.country # <<>> THEN 1 ELSE 0}}
    \cup {<<KeyVisibility, f.visibility>> : x \in {1} \cap {IF f.visibility # <<>> THEN 1 ELSE 0}}
    \cup {<<KeyCustomerId, f.customerID>> : x \in {1} \cap {IF f.customerID # <<>> THEN 1 ELSE 0}}

\* the string pairs among qs, and the number sent under key k (0 for none)
FilterPairs(qs) == {p \in qs : p[1] \notin {KeyLimit, KeyOffset}}
NumberSent(qs, k) ==
    IF \E p \in qs : p[1] = k
    THEN Atoi((CHOOSE p \in qs : p[1] = k)[2]).n
    ELSE 0

StatusActiveQuery == <<"s", "t", "a", "t", "u", "s", "=", "a", "c", "t", "i", "v", "e">>

\* C12 as stated, for a list call made directly and one made by "schemas
\* list": a call with no filter (no option set, no flag given) sends no query
\* string, and a call with only status active sends exactly status=active.
C12_NoFilterNoQuery ==
    Listing =>
        LET nofilter == IF call.cmd = ""
                        THEN OptionPairs(call.in) = {} /\ call.in.Limit = 0
                             /\ call.in.Offset = 0
                        ELSE FlagPairs(call.in) = {} /\ call.in.limit = DefaultLimit
                             /\ call.in.offset = 0
            onlystatus == IF call.cmd = ""
                          THEN OptionPairs(call.in) = {<<KeyStatusParam, <<"a", "c", "t", "i", "v", "e">>>>}
                               /\ call.in.Limit = 0 /\ call.in.Offset = 0
                          ELSE FlagPairs(call.in) = {<<KeyStatusParam, <<"a", "c", "t", "i", "v", "e">>>>}
                               /\ call.in.limit = DefaultLimit /\ call.in.offset = 0
        IN  /\ nofilter => ~HasQuery(req.url)
            /\ onlystatus => RawQuery(req.url) = StatusActiveQuery

\* C12, amended: the request goes to /admin/schemas; its query string holds
\* exactly one pair for each string option that is set (a filter flag with a
\* value), with the option's value, a limit pair exactly when the limit is
\* positive and an offset pair exactly when the offset is positive, where
\* "schemas list" takes the limit from --limit, 50 when the flag is not
\* given; the URL has no "?" exactly when there is no pair.  A direct call
\* with no option sends no query, one with only status active sends exactly
\* status=active.
C12_QueryHasExactlySetOptions ==
    Listing =>
        LET pairs == QueryPairs(RawQuery(req.url))
            limit == IF call.cmd = "" THEN call.in.Limit ELSE call.in.limit
            offset == IF call.cmd = "" THEN call.in.Offset ELSE call.in.offset
        IN  /\ PathOf(req.url) = apiClient.baseURL \o SchemasPath
            /\ FilterPairs(pairs) =
                   IF call.cmd = "" THEN OptionPairs(call.in) ELSE FlagPairs(call.in)
            /\ NumberSent(pairs, KeyLimit) = (IF limit > 0 THEN limit ELSE 0)
            /\ NumberSent(pairs, KeyOffset) = (IF offset > 0 THEN offset ELSE 0)
            /\ Cardinality(pairs) = Cardinality({p[1] : p \in pairs})
            /\ HasQuery(req.url) = (pairs # {})
            /\ (call.cmd = "" /\ OptionPairs(call.in) = {} /\ limit <= 0 /\ offset <= 0)
                   => req.url = apiClient.baseURL \o SchemasPath
            /\ (call.cmd = "" /\ OptionPairs(call.in) = {<<KeyStatusParam, <<"a", "c", "t", "i", "v", "e">>>>}
                /\ limit <= 0 /\ offset <= 0)
                   => RawQuery(req.url) = StatusActiveQuery

\* "schemas list --customer-id 'a&b=c d'" with no other flag has sent its
\* request, which carries the default limit
C12_Witness ==
    /\ Listing /\ pc = "inflight" /\ call.cmd = "schemas list"
    /\ call.in.customerID = <<"a", "&", "b", "=", "c", " ", "d">> /\ call.in.status = <<>>
    /\ call.in.limit = DefaultLimit
    /\ Len(RawQuery(req.url)) > 0

MaxIdLen == 2       \* characters in an identifier

IdChars == {"a", "/", "?", "#", "%", " "}
Ids == UNION {[1..n -> IdChars] : n \in 0..MaxIdLen}

\* the operations keyed by an identifier that send no body, and the ones
\* that send their request (client.go:118-300)
IdOps ==
    {"GetDocType", "DeleteDocType", "GetCountry", "DeleteCountry", "GetSchema",
     "GetSchemaVersion", "GetSchemaVersions", "ActivateSchema", "DeprecateSchema",
     "DeleteSchema"}
UpdateOps == {"UpdateDocType", "UpdateCountry", "UpdateSchema"}

\* the method of each operation, the type its result points to ("" for nil)
\* and the path texts it puts before and after the identifier
IdRoute(op) ==
    CASE op = "GetDocType" ->
            [method |-> "GET", result |-> "DocType",
             prefix |-> <<"/", "a", "d", "m", "i", "n", "/", "d", "o", "c", "-", "t", "y", "p", "e", "s", "/">>,
             suffix |-> <<>>]
      [] op = "DeleteDocType" ->
            [method |-> "DELETE", result |-> "",
             prefix |-> <<"/", "a", "d", "m", "i", "n", "/", "d", "o", "c", "-", "t", "y", "p", "e", "s", "/">>,
             suffix |-> <<>>]
      [] op = "GetCountry" ->
            [method |-> "GET", result |-> "Country",
             prefix |-> <<"/", "a", "d", "m", "i", "n", "/", "c", "o", "u", "n", "t", "r", "i", "e", "s", "/">>,
             suffix |-> <<>>]
      [] op = "DeleteCountry" ->
            [method |-> "DELETE", result |-> "",
             prefix |-> <<"/", "a", "d", "m", "i", "n", "/", "c", "o", "u", "n", "t", "r", "i", "e", "s", "/">>,
             suffix |-> <<>>]
      [] op = "GetSchema" ->
            [method |-> "GET", result |-> "SchemaWithRelations",
             prefix |-> <<"/", "a", "d", "m", "i", "n", "/", "s", "c", "h", "e", "m", "a", "s", "/">>,
             suffix |-> <<>>]
      [] op = "GetSchemaVersion" ->
            [method |-> "GET", result |-> "SchemaWithRelations",
             prefix |-> <<"/", "a", "d", "m", "i", "n", "/", "s", "c", "h", "e", "m", "a", "s", "/", "v", "e", "r", "s", "i", "o", "n", "s", "/">>,
             suffix |-> <<>>]
      [] op = "GetSchemaVersions" ->
            [method |-> "GET", result |-> "[]SchemaWithRelations",
             prefix |-> <<"/", "a", "d", "m", "i", "n", "/", "s", "c", "h", "e", "m", "a", "s", "/">>,
             suffix |-> <<"/", "v", "e", "r", "s", "i", "o", "n", "s">>]
      [] op = "ActivateSchema" ->
            [method |-> "POST", result |-> "SchemaWithRelations",
             prefix |-> <<"/", "a", "d", "m", "i", "n", "/", "s", "c", "h", "e", "m", "a", "s", "/">>,
             suffix |-> <<"/", "a", "c", "t", "i", "v", "a", "t", "e">>]
      [] op = "DeprecateSchema" ->
            [method |-> "POST", result |-> "SchemaWithRelations",
             prefix |-> <<"/", "a", "d", "m", "i", "n", "/", "s", "c", "h", "e", "m", "a", "s", "/">>,
             suffix |-> <<"/", "d", "e", "p", "r", "e", "c", "a", "t", "e">>]
      [] op = "DeleteSchema" ->
            [method |-> "DELETE", result |-> "",
             prefix |-> <<"/", "a", "d", "m", "i", "n", "/", "s", "c", "h", "e", "m", "a", "s", "/">>,
             suffix |-> <<>>]
      [] op = "UpdateDocType" ->
            [method |-> "PATCH", result |-> "DocType",
             prefix |-> <<"/", "a", "d", "m", "i", "n", "/", "d", "o", "c", "-", "t", "y", "p", "e", "s", "/">>,
             suffix |-> <<>>]
      [] op = "UpdateCountry" ->
            [method |-> "PATCH", result |-> "Country",
             prefix |-> <<"/", "a", "d", "m", "i", "n", "/", "c", "o", "u", "n", "t", "r", "i", "e", "s", "/">>,
             suffix |-> <<>>]
      [] op = "UpdateSchema" ->
            [method |-> "PATCH", result |-> "SchemaWithRelations",
             prefix |-> <<"/", "a", "d", "m", "i", "n", "/", "s", "c", "h", "e", "m", "a", "s", "/">>,
             suffix |-> <<>>]

\* the path an identifier-keyed operation builds
IdPath(op, id) == IdRoute(op).prefix \o PathEscape(id) \o IdRoute(op).suffix

\* a body of the operations that send one: json.Marshal's output
JSONBody(tokens) == [kind |-> "json", parts |-> tokens]

\* IdCallFrom sending an empty JSON object whatever the body
IdCallFrom_withBody(cmd, op, id, in, body) ==
    /\ call' = [NoCall EXCEPT !.op = op, !.result = IdRoute(op).result,
                              !.cmd = cmd, !.id = id, !.in = in]
    /\ net' = NoNet
    /\ doRequest(apiClient, IdRoute(op).method, IdPath(op, id),
                 [kind |-> "json", parts |-> <<LBRACE, RBRACE>>])

\* an identifier-keyed operation up to httpClient.Do, called from the command
\* cmd; body is NoBody for the operations that pass nil
IdCallFrom(cmd, op, id, in, body) ==
    /\ call' = [NoCall EXCEPT !.op = op, !.result = IdRoute(op).result,
                              !.cmd = cmd, !.id = id, !.in = in]
    /\ net' = NoNet
    /\ doRequest(apiClient, IdRoute(op).method, IdPath(op, id), body)

\* the same called directly
IdCall(op, id, in, body) == IdCallFrom("", op, id, in, body)

\* GetDocType, DeleteDocType, GetCountry, DeleteCountry, GetSchema,
\* GetSchemaVersion, GetSchemaVersions, ActivateSchema, DeprecateSchema and
\* DeleteSchema, called with any identifier
IdentifierOp ==
    /\ pc = "idle"
    /\ \E op \in IdOps, id \in Ids : IdCall(op, id, <<>>, NoBody)
    /\ UNCHANGED <<cliVars, apiClient>>

\* the segments of a path: the texts between its "/"
RECURSIVE Segments(_)
Segments(s) ==
    IF IndexOf(s, "/") = 0 THEN <<s>>
    ELSE <<SubSeq(s, 1, IndexOf(s, "/") - 1)>>
         \o Segments(SubSeq(s, IndexOf(s, "/") + 1, Len(s)))

\* C13: for every identifier, the request of an identifier-keyed operation
\* goes to the base URL followed by the operation's route with the identifier
\* as exactly one segment: the URL has no query string and no fragment, the
\* path has the segments of the route and no more, and the server's decoding
\* of the identifier's segment is the identifier.
C13_IdentifierIsOneSegment ==
    (call.op \in IdOps \cup UpdateOps /\ nreq = 1) =>
        LET base == apiClient.baseURL
            segs == Segments(SubSeq(req.url, Len(base) + 1, Len(req.url)))
            pre == Segments(IdRoute(call.op).prefix)
            suf == Segments(IdRoute(call.op).suffix)
        IN  /\ SubSeq(req.url, 1, Len(base)) = base
            /\ ~HasQuery(req.url)
            /\ IndexOf(req.url, "#") = 0
            /\ Len(segs) = Len(pre) + Len(suf) - 1
            /\ \A i \in 1..(Len(pre) - 1) : segs[i] = pre[i]
            /\ Unescape(segs[Len(pre)], FALSE) = call.id
            /\ \A j \in 2..Len(suf) : segs[Len(pre) + j - 1] = suf[j]

\* GetSchemaVersions has sent its request for the identifier "/?"
C13_Witness ==
    /\ pc = "inflight" /\ call.op = "GetSchemaVersions"
    /\ call.id = <<"/", "?">>
    /\ Len(req.url) > Len(apiClient.baseURL)

(***************************************************************************)
(* The update operations: UpdateDocType, UpdateCountry and UpdateSchema     *)
(* send their request record as a PATCH body.  A pointer field is           *)
(* [set, v], set FALSE for nil.                                            *)
(***************************************************************************)
OptionalBool == [set : {FALSE}, v : {FALSE}] \cup [set : {TRUE}, v : BOOLEAN]

ObjectContent == Map([n \in {"type"} |-> JString("object")])
ContentValues == {NilMap, Map(NoMembers), ObjectContent}

UpdateDocTypeRequests ==
    [Name : Optional({"", "x"}), Description : Optional({""}), IsActive : OptionalBool]
UpdateCountryRequests ==
    [Name : Optional({"", "x"}), IsActive : OptionalBool]
UpdateSchemaRequests ==
    [Name : Optional({"", "x"}), Description : Optional({""}), Content : ContentValues,
     DocTypeCode : Optional({"I"}), CountryCode : Optional({""}),
     Visibility : Optional({"public"}), SchemaType : Optional({"x"})]

\* json.Marshal of the three request types (part_002:98-102, 111-114, 130-138)
MarshalUpdateDocTypeRequest(r) ==
    MarshalObject(PtrFieldOmitEmpty("name", r.Name)
                  \o PtrFieldOmitEmpty("description", r.Description)
                  \o BoolPtrFieldOmitEmpty("isActive", r.IsActive))

MarshalUpdateCountryRequest(r) ==
    MarshalObject(PtrFieldOmitEmpty("name", r.Name)
                  \o BoolPtrFieldOmitEmpty("isActive", r.IsActive))

MarshalUpdateSchemaRequest(r) ==
    MarshalObject(PtrFieldOmitEmpty("name", r.Name)
                  \o PtrFieldOmitEmpty("description", r.Description)
                  \o MapFieldOmitEmpty("content", r.Content)
                  \o PtrFieldOmitEmpty("docTypeCode", r.DocTypeCode)
                  \o PtrFieldOmitEmpty("countryCode", r.CountryCode)
                  \o PtrFieldOmitEmpty("visibility", r.Visibility)
                  \o PtrFieldOmitEmpty("schemaType", r.SchemaType))

MarshalUpdate(op, r) ==
    CASE op = "UpdateDocType" -> MarshalUpdateDocTypeRequest(r)
      [] op = "UpdateCountry" -> MarshalUpdateCountryRequest(r)
      [] op = "UpdateSchema" -> MarshalUpdateSchemaRequest(r)

UpdateRequests(op) ==
    CASE op = "UpdateDocType" -> UpdateDocTypeRequests
      [] op = "UpdateCountry" -> UpdateCountryRequests
      [] op = "UpdateSchema" -> UpdateSchemaRequests

\* the request record with every field nil
IsZeroRequest(r) ==
    \A f \in DOMAIN r : IF f = "Content" THEN r[f] = NilMap ELSE ~r[f].set

UpdateId == <<"a">>

\* UpdateDocType, UpdateCountry and UpdateSchema (client.go:137-143, 182-188,
\* 271-277), called with any identifier and the zero request, and with one
\* identifier and any request
UpdateOp ==
    /\ pc = "idle"
    /\ \E op \in UpdateOps, id \in Ids : \E r \in UpdateRequests(op) :
        /\ id = UpdateId \/ IsZeroRequest(r)
        /\ IdCall(op, id, r, JSONBody(MarshalUpdate(op, r)))
    /\ UNCHANGED <<cliVars, apiClient>>

\* the flags of "schemas update" as the user gives them: set is Changed(),
\* v the value cobra returns, "" for a flag that is not given; --content is
\* a JSON text
StringFlag(S) == Optional(S)
NoContentFlag == [set |-> FALSE, v |-> <<>>]
ContentFlags ==
    {NoContentFlag}
    \cup [set : {TRUE},
          v : {<<>>, <<LBRACE, RBRACE>>, <<NULL>>, <<Junk>>, <<Quote("x")>>,
               <<LBRACE, KeyToken("type"), Quote("object"), RBRACE>>}]

UpdateFlags ==
    [name : StringFlag({"", "x"}), docType : StringFlag({"I"}), content : ContentFlags,
     description : StringFlag({"", "d"}), country : StringFlag({""}),
     visibility : StringFlag({"public"}), schemaType : StringFlag({"x"})]

\* parseContent for a text that names no file (schemas.go:524-544): the
\* text is decoded into a map; null leaves the map nil
parseContent(s) ==
    LET d == Decode(s)
    IN  IF d.err \/ d.v.t \notin {"object", "null"}
        THEN [err |-> TRUE, content |-> NilMap]
        ELSE [err |-> FALSE,
              content |-> IF d.v.t = "null" THEN NilMap ELSE Map(d.v.m)]

NonEmptyPtr(f) == IF f.v # "" THEN [set |-> TRUE, v |-> f.v] ELSE [set |-> FALSE, v |-> ""]
ChangedPtr(f) == IF f.set THEN [set |-> TRUE, v |-> f.v] ELSE [set |-> FALSE, v |-> ""]

\* the request schemasUpdateCmd builds from its flags (schemas.go:232-268,
\* part_006:325-361)
schemasUpdateRequest(f) ==
    [Name |-> NonEmptyPtr(f.name),
     Description |-> ChangedPtr(f.description),
     Content |-> IF f.content.v # <<>> THEN parseContent(f.content.v).content ELSE NilMap,
     DocTypeCode |-> NonEmptyPtr(f.docType),
     CountryCode |-> ChangedPtr(f.country),
     Visibility |-> NonEmptyPtr(f.visibility),
     SchemaType |-> NonEmptyPtr(f.schemaType)]

schemasUpdateHasUpdate(f) ==
    \/ f.name.v # "" \/ f.docType.v # "" \/ f.content.v # <<>>
    \/ f.description.set \/ f.country.set
    \/ f.visibility.v # "" \/ f.schemaType.v # ""

\* schemasUpdateCmd.RunE up to the request (schemas.go:229-272)
schemasUpdateCmd ==
    /\ pc = "idle"
    /\ \E f \in UpdateFlags :
        IF f.content.v # <<>> /\ parseContent(f.content.v).err
        THEN /\ call' = [NoCall EXCEPT !.cmd = "schemas update", !.id = UpdateId, !.in = f]
             /\ net' = NoNet
             /\ Fail(Errorf("invalid content: %w", 0, <<>>, "invalid JSON: %w"))
        ELSE IF ~schemasUpdateHasUpdate(f)
        THEN /\ call' = [NoCall EXCEPT !.cmd = "schemas update", !.id = UpdateId, !.in = f]
             /\ net' = NoNet
             /\ Fail(Errorf("no update fields provided", 0, <<>>, ""))
        ELSE IdCallFrom("schemas update", "UpdateSchema", UpdateId, f,
                        JSONBody(MarshalUpdateSchemaRequest(schemasUpdateRequest(f))))
    /\ UNCHANGED <<cliVars, apiClient>>

(***************************************************************************)
(* Claims about the update operations, checked under SpecOps.              *)
(***************************************************************************)
\* the member name of each field of the update requests, and of each flag of
\* "schemas update"
JSONName(f) ==
    CASE f \in {"Name", "name"} -> "name"
      [] f \in {"Description", "description"} -> "description"
      [] f \in {"Content", "content"} -> "content"
      [] f \in {"DocTypeCode", "docType"} -> "docTypeCode"
      [] f \in {"CountryCode", "country"} -> "countryCode"
      [] f \in {"Visibility", "visibility"} -> "visibility"
      [] f \in {"SchemaType", "schemaType"} -> "schemaType"
      [] f \in {"IsActive", "active"} -> "isActive"

\* the caller provided the field: a pointer that is not nil, a map that is
\* not nil, a flag given on the command line
Provided(in, f) == IF f = "Content" THEN ~in[f].nil ELSE in[f].set

\* the members of the body the server receives
SentMembers == DOMAIN Decode(req.body.parts).v.m

\* C14: the PATCH body of an update contains a field if and only if the
\* caller provided it, so that an explicitly empty value and no value give
\* different bodies.
C14_BodyHasFieldIffProvided ==
    (call.op \in UpdateOps /\ nreq = 1) =>
        \A f \in DOMAIN call.in : Provided(call.in, f) <=> JSONName(f) \in SentMembers

(***************************************************************************)
(* The lifecycle transitions from the command line.                        *)
(***************************************************************************)
LifecycleOps == {"ActivateSchema", "DeprecateSchema"}
LifecycleCmd(op) ==
    IF op = "ActivateSchema" THEN "schemas activate" ELSE "schemas deprecate"

\* schemasActivateCmd.RunE and schemasDeprecateCmd.RunE up to the request
\* (schemas.go:293-296, 314-317; part_006:412-414, 431-433): the argument
\* goes to the client as it is
schemasLifecycleCmd ==
    /\ pc = "idle"
    /\ \E op \in LifecycleOps, id \in Ids :
        IdCallFrom(LifecycleCmd(op), op, id, <<>>, NoBody)
    /\ UNCHANGED <<cliVars, apiClient>>

\* C15: ActivateSchema and DeprecateSchema, for every identifier and
\* whatever earlier calls returned, hand over exactly one request and never
\* return without one: a POST with no body to
\* <base>/admin/schemas/<identifier>/activate or .../deprecate.
C15_LifecycleIsBodylessPost ==
    (call.op \in LifecycleOps /\ pc # "idle") =>
        LET base == apiClient.baseURL
            segs == Segments(SubSeq(req.url, Len(base) + 1, Len(req.url)))
        IN  /\ nreq = 1
            /\ req.method = "POST"
            /\ req.body.kind = "none" /\ req.body.parts = <<>>
            /\ SubSeq(req.url, 1, Len(base)) = base
            /\ ~HasQuery(req.url)
            /\ Len(segs) = 5
            /\ segs[1] = <<>>
            /\ segs[2] = <<"a", "d", "m", "i", "n">>
            /\ segs[3] = <<"s", "c", "h", "e", "m", "a", "s">>
            /\ Unescape(segs[4], FALSE) = call.id
            /\ segs[5] = (IF call.op = "ActivateSchema"
                          THEN <<"a", "c", "t", "i", "v", "a", "t", "e">>
                          ELSE <<"d", "e", "p", "r", "e", "c", "a", "t", "e">>)

\* "schemas deprecate" has sent its request for the identifier "a/"
C15_Witness ==
    /\ pc = "inflight" /\ call.op = "DeprecateSchema"
    /\ call.cmd = "schemas deprecate" /\ call.id = <<"a", "/">>
    /\ nreq = 1

(***************************************************************************)
(* FindBestSchema and "schemas find-best".                                 *)
(***************************************************************************)
FindBestPath == <<"/", "s", "c", "h", "e", "m", "a", "s", "/", "f", "i", "n", "d", "-", "b", "e", "s", "t">>

FindBestRequests ==
    [DocTypeCode : {"I", "x"}, CountryCode : Optional({"PT"}),
     CustomerID : Optional({"c1"})]

\* json.Marshal of a FindBestRequest (part_002:141-145)
MarshalFindBestRequest(r) ==
    MarshalObject(StringField("docTypeCode", r.DocTypeCode)
                  \o PtrFieldOmitEmpty("countryCode", r.CountryCode)
                  \o PtrFieldOmitEmpty("customerId", r.CustomerID))

\* Client.FindBestSchema up to httpClient.Do (client.go:303-305)
FindBestCall(cmd, in, r) ==
    /\ call' = [NoCall EXCEPT !.op = "FindBestSchema", !.result = "FindBestResponse",
                              !.cmd = cmd, !.in = in]
    /\ net' = NoNet
    /\ doRequest(apiClient, "POST", FindBestPath, JSONBody(MarshalFindBestRequest(r)))

FindBestSchema ==
    /\ pc = "idle"
    /\ \E r \in FindBestRequests : FindBestCall("", r, r)
    /\ UNCHANGED <<cliVars, apiClient>>

\* the flags of "schemas find-best" as cobra returns them, with --doc-type
\* given, and the global --json (schemas.go:66-69, part_004:120)
FindBestFlags ==
    [docType : {"", "I"}, country : {"", "PT"}, customerID : {"", "c1"}, json : BOOLEAN]

\* schemasFindBestCmd.RunE up to the request (schemas.go:353-367,
\* part_006:466-477)
schemasFindBestCmd ==
    /\ pc = "idle"
    /\ \E f \in FindBestFlags :
        FindBestCall("schemas find-best", f,
                     [DocTypeCode |-> f.docType,
                      CountryCode |-> NonEmptyPtr([v |-> f.country]),
                      CustomerID |-> NonEmptyPtr([v |-> f.customerID])])
    /\ UNCHANGED <<cliVars, apiClient>>

\* output.PtrString (part_000:121-126)
PtrString(p, def) == IF p.set THEN p.v ELSE def

\* schemasFindBestCmd.RunE from the return of FindBestSchema on
\* (schemas.go:367-384, part_006:477-490); out is the first line printed,
\* "json" standing for the result as PrintJSON writes it
schemasFindBestCmdReturn ==
    /\ pc = "returned" /\ call.cmd = "schemas find-best"
    /\ execErr' = ret.err
    /\ out' = IF ret.err # NoErr THEN out
              ELSE IF call.in.json THEN "json"
              ELSE IF ret.result.value.Schema.nil THEN "No matching schema found"
              ELSE "Match type: " \o PtrString(ret.result.value.MatchType, "unknown")
    /\ pc' = "executed"
    /\ UNCHANGED <<env, apiURL, apiKey, heap, cfg, apiClient, mode, args,
                   callVars, stdin, stdout, ps, reader, jsonOut, JSONOutput, stderr, exitCode>>

\* the command has ended; the next one runs in a new process
NextCommand ==
    /\ pc = "executed" /\ mode = "lib"
    /\ pc' = "idle"
    /\ call' = NoCall /\ req' = NoReq /\ nreq' = 0 /\ net' = NoNet /\ ret' = NoRet
    /\ clock' = 0
    /\ execErr' = NoErr /\ out' = ""
    /\ UNCHANGED <<env, apiURL, apiKey, heap, cfg, apiClient, mode, args,
                   stdin, stdout, ps, reader, jsonOut, JSONOutput, stderr, exitCode>>

\* FindBestSchema has returned for a response with a status under 400
FindBestAnswered ==
    /\ call.op = "FindBestSchema" /\ pc \in {"returned", "executed"}
    /\ net.kind = "response" /\ net.status < 400

\* C16: FindBestSchema keeps the presence or absence of the server's answer.
\* For a response that is an object with a schema object, the result has a
\* schema and the response's matchType; for a response whose schema is null
\* or missing, the call returns no error and a result without a schema, and
\* "schemas find-best" then prints "No matching schema found" (the result as
\* JSON under --json) and returns no error.
C16_FindBestKeepsPresence ==
    FindBestAnswered =>
        LET d == Decode(net.body)
            m == d.v.m
            absent == "schema" \notin DOMAIN m \/ m["schema"].t = "null"
        IN  /\ (net.body = FoundBody) =>
                    /\ ret.err = NoErr /\ ret.result.ok
                    /\ ~ret.result.value.Schema.nil
                    /\ ret.result.value.Schema.v.PublicID = "x"
                    /\ ret.result.value.MatchType = [set |-> TRUE, v |-> "exact"]
            /\ (~d.err /\ d.v.t = "object" /\ ret.err = NoErr) =>
                    (ret.result.value.Schema.nil <=> absent)
            /\ (~d.err /\ d.v.t = "object" /\ absent
                    /\ ("matchType" \in DOMAIN m => m["matchType"].t \in {"null", "string"})) =>
                    /\ ret.err = NoErr /\ ret.result.ok
                    /\ ret.result.value.Schema.nil
                    /\ (pc = "executed") =>
                           /\ execErr = NoErr
                           /\ out = (IF call.in.json THEN "json"
                                     ELSE "No matching schema found")

\* "schemas find-best" has printed that nothing matched, for the response
\* {"schema": null, "matchType": null}
C16_Witness ==
    /\ pc = "executed" /\ call.cmd = "schemas find-best"
    /\ net.kind = "response" /\ net.status = 200 /\ net.body = NotFoundBody
    /\ execErr = NoErr /\ out = "No matching schema found"

(***************************************************************************)
(* Redirects.  The http.Client of New has no CheckRedirect, so Do follows  *)
(* a 3xx response that names a location: it sends a further request, as    *)
(* GET without a body after 301, 302 or 303 unless the method was GET or   *)
(* HEAD, and with the same method and body after 307 or 308.               *)
(***************************************************************************)
MaxRedirects == 1   \* redirects followed within one call (net/http stops at 10)

RedirectCodes == {302, 307}
Location == DefaultAPIURL \o <<"/", "m", "o", "v", "e", "d">>

redirectBehavior(code, r) ==
    IF code \in {301, 302, 303} /\ r.method \notin {"GET", "HEAD"}
    THEN [r EXCEPT !.method = "GET", !.body = NoBody, !.url = Location]
    ELSE [r EXCEPT !.url = Location]

\* httpClient.Do receives a redirect and sends the next request
\* (client.go:32-34, 59)
Redirect ==
    /\ pc = "inflight" /\ nreq <= MaxRedirects
    /\ \E code \in RedirectCodes :
        /\ net' = [kind |-> "redirect", status |-> code, body |-> <<>>, cause |-> ""]
        /\ req' = redirectBehavior(code, req)
    /\ nreq' = nreq + 1
    /\ UNCHANGED <<cliVars, apiClient, call, ret, pc, clock>>

(***************************************************************************)
(* Claims about requests per call, checked under SpecRedirect.             *)
(***************************************************************************)
\* a step of a call that never retries and keeps nothing: a request is
\* sent when the call starts or when the server has answered with a
\* redirect, none is sent once the call has returned, the client is never
\* modified, and when the call is over the next one starts from the
\* arguments and the client alone
NoRetryStep ==
    /\ apiClient' = apiClient
    /\ nreq' > nreq => /\ nreq' = nreq + 1
                       /\ nreq = 0 \/ (net'.kind = "redirect" /\ pc = "inflight")
    /\ pc \in {"returned", "executed"} => nreq' <= nreq
    /\ (pc # "idle" /\ pc' = "idle") =>
           call' = NoCall /\ req' = NoReq /\ nreq' = 0 /\ net' = NoNet /\ ret' = NoRet

NestedContent ==
    Map([n \in {"type", "name", "isActive", "schema"} |->
            CASE n = "type" -> JString("object")
              [] n = "name" -> JNull
              [] n = "isActive" -> JBool(TRUE)
              [] n = "schema" -> JObject([k \in {"type"} |-> JString("x")])])

CreateSchemaRequests ==
    [Name : {"", "x"}, Description : Optional({"", "d"}),
     Content : ContentValues \cup {NestedContent}, DocTypeCode : {"I"},
     CountryCode : Optional({"PT"}), Visibility : Optional({"", "public"}),
     SchemaType : Optional({"x"}), CustomerID : Optional({"c1"})]

\* json.Marshal of a CreateSchemaRequest (part_002:118-127)
MarshalCreateSchemaRequest(r) ==
    MarshalObject(StringField("name", r.Name)
                  \o PtrFieldOmitEmpty("description", r.Description)
                  \o MapField("content", r.Content)
                  \o StringField("docTypeCode", r.DocTypeCode)
                  \o PtrFieldOmitEmpty("countryCode", r.CountryCode)
                  \o PtrFieldOmitEmpty("visibility", r.Visibility)
                  \o PtrFieldOmitEmpty("schemaType", r.SchemaType)
                  \o PtrFieldOmitEmpty("customerId", r.CustomerID))

\* Client.CreateSchema up to httpClient.Do (client.go:262-264)
CreateSchema ==
    /\ pc = "idle"
    /\ \E r \in CreateSchemaRequests :
        /\ call' = [NoCall EXCEPT !.op = "CreateSchema",
                                  !.result = "SchemaWithRelations", !.in = r]
        /\ net' = NoNet
        /\ doRequest(apiClient, "POST", SchemasPath,
                     JSONBody(MarshalCreateSchemaRequest(r)))
    /\ UNCHANGED <<cliVars, apiClient>>

\* CreateSchema has returned for a response that echoes its request body
Echoed ==
    /\ call.op = "CreateSchema" /\ pc = "returned" /\ nreq = 1
    /\ net.kind = "response" /\ net.status < 400
    /\ net.body = req.body.parts

Cmd(flags, required, op, runnable) ==
    [flags |-> flags, required |-> required, op |-> op, runnable |-> runnable]

\* part_004:117-129, part_006:26-28, schemas.go:21-82, doctypes.go:18-35,
\* countries.go:17-30
OneShotCommands ==
       <<"version">> :>
        Cmd({}, {}, "", TRUE)
    @@ <<"health">> :>
        Cmd({}, {}, "Health", TRUE)
    @@ <<"reference-data">> :>
        Cmd({}, {}, "GetReferenceData", TRUE)
    @@ <<"schemas">> :>
        Cmd({}, {}, "", FALSE)
    @@ <<"doc-types">> :>
        Cmd({}, {}, "", FALSE)
    @@ <<"countries">> :>
        Cmd({}, {}, "", FALSE)
    @@ <<"shell">> :>
        Cmd({}, {}, "", TRUE)
    @@ <<"countries", "create">> :>
        Cmd({}, {}, "CreateCountry", TRUE)
    @@ <<"countries", "delete">> :>
        Cmd({}, {}, "DeleteCountry", TRUE)
    @@ <<"countries", "get">> :>
        Cmd({}, {}, "GetCountry", TRUE)
    @@ <<"countries", "list">> :>
        Cmd({<<"all", "", "false">>},
            {}, "ListCountries", TRUE)
    @@ <<"countries", "update">> :>
        Cmd({<<"active", "", "true">>, <<"name", "n", "">>},
            {}, "UpdateCountry", TRUE)
    @@ <<"doc-types", "create">> :>
        Cmd({<<"description", "d", "">>},
            {}, "CreateDocType", TRUE)
    @@ <<"doc-types", "delete">> :>
        Cmd({}, {}, "DeleteDocType", TRUE)
    @@ <<"doc-types", "get">> :>
        Cmd({}, {}, "GetDocType", TRUE)
    @@ <<"doc-types", "list">> :>
        Cmd({<<"all", "", "false">>},
            {}, "ListDocTypes", TRUE)
    @@ <<"doc-types", "update">> :>
        Cmd({<<"active", "", "true">>, <<"description", "d", "">>,
             <<"name", "n", "">>},
            {}, "UpdateDocType", TRUE)
    @@ <<"schemas", "activate">> :>
        Cmd({}, {}, "ActivateSchema", TRUE)
    @@ <<"schemas", "create">> :>
        Cmd({<<"content", "", "">>, <<"country", "c", "">>,
             <<"customer-id", "", "">>, <<"description", "d", "">>,
             <<"doc-type", "t", "">>, <<"name", "n", "">>,
             <<"schema-type", "", "standard">>, <<"visibility", "v", "private">>},
            {"content", "doc-type", "name"}, "CreateSchema", TRUE)
    @@ <<"schemas", "delete">> :>
        Cmd({}, {}, "DeleteSchema", TRUE)
    @@ <<"schemas", "deprecate">> :>
        Cmd({}, {}, "DeprecateSchema", TRUE)
    @@ <<"schemas", "find-best">> :>
        Cmd({<<"country", "c", "">>, <<"customer-id", "", "">>,
             <<"doc-type", "t", "">>},
            {"doc-type"}, "FindBestSchema", TRUE)
    @@ <<"schemas", "generate">> :>
        Cmd({<<"country", "c", "">>, <<"doc-type", "t", "">>, <<"file", "f", "">>,
             <<"text", "", "">>, <<"use-ocr", "", "true">>},
            {"country", "doc-type"}, "GenerateSchema", TRUE)
    @@ <<"schemas", "get">> :>
        Cmd({}, {}, "GetSchema", TRUE)
    @@ <<"schemas", "list">> :>
        Cmd({<<"country", "c", "">>, <<"customer-id", "", "">>,
             <<"doc-type", "t", "">>, <<"limit", "", "50">>, <<"offset", "", "0">>,
             <<"status", "", "">>, <<"visibility", "v", "">>},
            {}, "ListSchemas", TRUE)
    @@ <<"schemas", "match">> :>
        Cmd({<<"customer-id", "", "">>},
            {}, "MatchSchema", TRUE)
    @@ <<"schemas", "update">> :>
        Cmd({<<"content", "", "">>, <<"country", "c", "">>,
             <<"description", "d", "">>, <<"doc-type", "t", "">>,
             <<"name", "n", "">>, <<"schema-type", "", "">>,
             <<"visibility", "v", "">>},
            {}, "UpdateSchema", TRUE)
    @@ <<"schemas", "versions">> :>
        Cmd({}, {}, "GetSchemaVersions", TRUE)

\* part_006:124-151, 192-567, 569-717, 719-853, 855-897
ShellCommands ==
       <<"version">> :>
        Cmd({}, {}, "", TRUE)
    @@ <<"health">> :>
        Cmd({}, {}, "Health", TRUE)
    @@ <<"reference-data">> :>
        Cmd({}, {}, "GetReferenceData", TRUE)
    @@ <<"schemas">> :>
        Cmd({}, {}, "", FALSE)
    @@ <<"doc-types">> :>
        Cmd({}, {}, "", FALSE)
    @@ <<"countries">> :>
        Cmd({}, {}, "", FALSE)
    @@ <<"schemas", "list">> :>
        Cmd({<<"country", "c", "">>, <<"customer-id", "", "">>,
             <<"doc-type", "t", "">>, <<"limit", "", "50">>, <<"offset", "", "0">>,
             <<"status", "", "">>, <<"visibility", "v", "">>},
            {}, "ListSchemas", TRUE)
    @@ <<"schemas", "get">> :>
        Cmd({}, {}, "GetSchema", TRUE)
    @@ <<"schemas", "create">> :>
        Cmd({<<"content", "", "">>, <<"country", "c", "">>,
             <<"customer-id", "", "">>, <<"description", "d", "">>,
             <<"doc-type", "t", "">>, <<"name", "n", "">>,
             <<"schema-type", "", "standard">>, <<"visibility", "v", "private">>},
            {"content", "doc-type", "name"}, "CreateSchema", TRUE)
    @@ <<"schemas", "update">> :>
        Cmd({<<"content", "", "">>, <<"country", "c", "">>,
             <<"description", "d", "">>, <<"doc-type", "t", "">>,
             <<"name", "n", "">>, <<"schema-type", "", "">>,
             <<"visibility", "v", "">>},
            {}, "UpdateSchema", TRUE)
    @@ <<"schemas", "activate">> :>
        Cmd({}, {}, "ActivateSchema", TRUE)
    @@ <<"schemas", "deprecate">> :>
        Cmd({}, {}, "DeprecateSchema", TRUE)
    @@ <<"schemas", "delete">> :>
        Cmd({}, {}, "DeleteSchema", TRUE)
    @@ <<"schemas", "find-best">> :>
        Cmd({<<"country", "c", "">>, <<"customer-id", "", "">>,
             <<"doc-type", "t", "">>},
            {"doc-type"}, "FindBestSchema", TRUE)
    @@ <<"schemas", "versions">> :>
        Cmd({}, {}, "GetSchemaVersions", TRUE)
    @@ <<"schemas", "match">> :>
        Cmd({<<"customer-id", "", "">>},
            {}, "MatchSchema", TRUE)
    @@ <<"doc-types", "list">> :>
        Cmd({<<"all", "", "false">>},
            {}, "ListDocTypes", TRUE)
    @@ <<"doc-types", "get">> :>
        Cmd({}, {}, "GetDocType", TRUE)
    @@ <<"doc-types", "create">> :>
        Cmd({<<"description", "d", "">>},
            {}, "CreateDocType", TRUE)
    @@ <<"doc-types", "update">> :>
        Cmd({<<"active", "", "true">>, <<"description", "d", "">>,
             <<"name", "n", "">>},
            {}, "UpdateDocType", TRUE)
    @@ <<"doc-types", "delete">> :>
        Cmd({}, {}, "DeleteDocType", TRUE)
    @@ <<"countries", "list">> :>
        Cmd({<<"all", "", "false">>},
            {}, "ListCountries", TRUE)
    @@ <<"countries", "get">> :>
        Cmd({}, {}, "GetCountry", TRUE)
    @@ <<"countries", "create">> :>
        Cmd({}, {}, "CreateCountry", TRUE)
    @@ <<"countries", "update">> :>
        Cmd({<<"active", "", "true">>, <<"name", "n", "">>},
            {}, "UpdateCountry", TRUE)
    @@ <<"countries", "delete">> :>
        Cmd({}, {}, "DeleteCountry", TRUE)

PersistentFlags == {"api-url", "api-key", "json"}

\* a command line: the words of the command, one flag given by its long
\* name ("" for none), and whether the flags the one-shot command requires
\* are given too
TreeWords == DOMAIN OneShotCommands \cup {<<"bogus">>, <<"schemas", "bogus">>}
TreeFlags ==
    {"", "bogus", "json"}
    \cup {f[1] : f \in UNION {OneShotCommands[c].flags : c \in DOMAIN OneShotCommands}}
TreeLines == [cmd : TreeWords, flag : TreeFlags, required : BOOLEAN]

\* cobra's Find: the command the words name in the tree; a word the root
\* does not know is an error, a word a group does not know leaves the group
NotFound == <<>>
Find(tree, words) ==
    IF words \in DOMAIN tree THEN words
    ELSE IF Len(words) = 2 /\ <<words[1]>> \in DOMAIN tree THEN <<words[1]>>
    ELSE NotFound

\* cobra's Execute for the line: [err, op], err the format of the error and
\* op the client operation the command calls.  An undefined flag is an
\* error; a command without Run prints its help; a required flag that is
\* missing is an error; otherwise RunE runs.
cobraExecute(tree, line) ==
    LET c == Find(tree, line.cmd)
        known == {f[1] : f \in tree[c].flags} \cup PersistentFlags
        given == {line.flag} \cup
                 (IF line.required /\ line.cmd \in DOMAIN OneShotCommands
                  THEN OneShotCommands[line.cmd].required ELSE {})
    IN  IF c = NotFound THEN [err |-> "unknown command %q for %q", op |-> ""]
        ELSE IF given \ (known \cup {""}) # {} THEN [err |-> "unknown flag: --%s", op |-> ""]
        ELSE IF ~tree[c].runnable THEN [err |-> "", op |-> ""]
        ELSE IF ~(tree[c].required \subseteq given)
        THEN [err |-> "required flag(s) %s not set", op |-> ""]
        ELSE [err |-> "", op |-> tree[c].op]

(***************************************************************************)
(* SpecTree: one command line given to the one-shot CLI or typed into the  *)
(* shell, up to the client operation its command calls.                    *)
(***************************************************************************)
InitTree ==
    /\ env = NoEnv /\ apiURL = <<>> /\ apiKey = "" /\ heap = <<>> /\ cfg = Nil
    /\ apiClient = NoClient /\ execErr = NoErr
    /\ mode \in {"oneshot", "shell"}
    /\ args \in TreeLines
    /\ pc = IF mode = "oneshot" THEN "main" ELSE "prompt"
    /\ call = NoCall /\ req = NoReq /\ nreq = 0 /\ net = NoNet /\ ret = NoRet
    /\ clock = 0
    /\ stdin = 0 /\ stdout = 0 /\ out = "" /\ ps = NoPS /\ reader = NoReader
    /\ jsonOut = FALSE /\ JSONOutput = FALSE /\ stderr = 0
    /\ exitCode = Running

Executed(r) ==
    /\ execErr' = (IF r.err = "" THEN NoErr ELSE Errorf(r.err, 0, <<>>, ""))
    /\ call' = [NoCall EXCEPT !.op = r.op]
    /\ pc' = "executed"
    /\ UNCHANGED <<env, apiURL, apiKey, heap, cfg, apiClient, mode, args, req, nreq,
                   net, ret, clock, stdin, stdout, out, ps, reader, jsonOut, JSONOutput, stderr, exitCode>>

\* rootCmd.Execute() up to the client operation (part_004:112-115)
rootCmdExecute ==
    /\ pc = "main" /\ mode = "oneshot"
    /\ Executed(cobraExecute(OneShotCommands, args))

\* buildRootCommand().Execute() up to the client operation
\* (part_006:113-117)
buildRootCommandExecute ==
    /\ pc = "prompt" /\ mode = "shell"
    /\ Executed(cobraExecute(ShellCommands, args))

NextTree == rootCmdExecute \/ buildRootCommandExecute

SpecTree == InitTree /\ [][NextTree]_vars

\* C19: every command of the one-shot tree but "shell" is in the shell's
\* tree with the same flags, and a line typed into the shell ends as the
\* same line given to the one-shot CLI does: with the same error or in the
\* same client operation.
C19_ShellRunsOneShotCommands ==
    (mode = "shell" /\ pc = "executed" /\ args.cmd \in DOMAIN OneShotCommands
        /\ args.cmd # <<"shell">>) =>
        /\ args.cmd \in DOMAIN ShellCommands
        /\ ShellCommands[args.cmd] = OneShotCommands[args.cmd]
        /\ [err |-> execErr.format, op |-> call.op] = cobraExecute(OneShotCommands, args)

(***************************************************************************)
(* Send-DocDigitizerDocument (client.go:462-694), a PowerShell advanced    *)
(* function: its parameters are bound once per invocation, the defaults of *)
(* the unbound ones are evaluated then, begin runs once, and process runs  *)
(* once for every file that comes down the pipeline.                       *)
(***************************************************************************)
\* the most files one pipeline invocation receives
MaxFiles == 3

\* [guid]::NewGuid(): the n-th call returns a GUID no earlier call returned
Guids == <<"g1", "g2", "g3", "g4">>
NewGuid(n) == Guids[n + 1]

\* the values of -DocumentId and -ContextId on the command line ("" when the
\* parameter is not supplied)
DocumentIdArgs == {"", "u1"}
ContextIdArgs == {"", "u2"}
PSVersions == {5, 7}

\* the values of -OutputPath (empty when it is not supplied)
OutputPathArgs == {<<>>, <<"r", "/", "o", ".", "j", "s", "o", "n">>}

\* the resolved paths of the files that come down the pipeline, in order
PipelineFiles ==
    << <<"a", "/", "x", ".", "p", "d", "f">>,
       <<"b", "/", "y", ".", "P", "D", "F">>,
       <<"a", "/", "x", ".", "1", ".", "p", "d", "f">>,
       <<"c", "/", "z", ".", "p", "d", "f">> >>

\* what happens to one file: ValidateScript rejects it, the service answers
\* with a result, with stateText ERROR, or the request throws
FileOutcomes == {"invalid", "ok", "ERROR", "exception"}

SendInvocations ==
    [files : 1..MaxFiles, DocumentId : DocumentIdArgs, ContextId : ContextIdArgs,
     PSVersion : PSVersions, SaveExtraction : BOOLEAN, OutputPath : OutputPathArgs]

InitSend ==
    /\ env = NoEnv /\ apiURL = <<>> /\ apiKey = "" /\ heap = <<>> /\ cfg = Nil
    /\ apiClient = NoClient /\ execErr = NoErr
    /\ mode = "powershell"
    /\ args \in SendInvocations
    /\ pc = "param"
    /\ call = NoCall /\ req = NoReq /\ nreq = 0 /\ net = NoNet /\ ret = NoRet
    /\ clock = 0
    /\ stdin = 0 /\ stdout = 0 /\ out = "" /\ ps = NoPS /\ reader = NoReader
    /\ jsonOut = FALSE /\ JSONOutput = FALSE /\ stderr = 0
    /\ exitCode = Running

\* the param block (client.go:531-568): a supplied value is bound, the
\* default expression of an unbound parameter is evaluated, DocumentId first
SendParam ==
    /\ pc = "param" /\ mode = "powershell"
    /\ LET d == IF args.DocumentId = "" THEN 1 ELSE 0
           c == IF args.ContextId = "" THEN 1 ELSE 0
       IN  ps' = [ps EXCEPT
                    !.DocumentId = IF d = 1 THEN NewGuid(ps.guids) ELSE args.DocumentId,
                    !.ContextId = IF c = 1 THEN NewGuid(ps.guids + d) ELSE args.ContextId,
                    !.guids = ps.guids + d + c]
    /\ pc' = "begin"
    /\ UNCHANGED <<env, apiURL, apiKey, heap, cfg, apiClient, mode, args, execErr,
                   callVars, stdin, stdout, out, reader, jsonOut, JSONOutput, stderr,
                   exitCode>>

\* the begin block (client.go:570-578): the configuration fills the options
\* left empty; no GUID is made
SendBegin ==
    /\ pc = "begin" /\ mode = "powershell"
    /\ pc' = "process"
    /\ UNCHANGED <<env, apiURL, apiKey, heap, cfg, apiClient, mode, args, execErr,
                   callVars, stdin, stdout, out, ps, reader, jsonOut, JSONOutput, stderr, exitCode>>

\* the multipart form of one file (client.go:607-620): -Form on PowerShell 7
\* and later, Build-MultipartForm before
SendForm(fullPath, version) ==
    [files |-> fullPath, id |-> ps.DocumentId, contextID |-> ps.ContextId,
     via |-> IF version >= 7 THEN "Form" ELSE "Build-MultipartForm"]

\* the last index of character c in s (0 for none)
LastIndexOf(s, c) ==
    IF \E i \in 1..Len(s) : s[i] = c
    THEN CHOOSE i \in 1..Len(s) : s[i] = c /\ \A j \in (i + 1)..Len(s) : s[j] # c
    ELSE 0

\* Split-Path -Parent, Split-Path -Leaf, Join-Path
SplitPathParent(p) == SubSeq(p, 1, LastIndexOf(p, "/") - 1)
SplitPathLeaf(p) == SubSeq(p, LastIndexOf(p, "/") + 1, Len(p))
JoinPath(d, n) == d \o <<"/">> \o n

\* [System.IO.Path]::GetFileNameWithoutExtension: the leaf up to its last dot
GetFileNameWithoutExtension(p) ==
    LET leaf == SplitPathLeaf(p)
        dot == LastIndexOf(leaf, ".")
    IN  IF dot = 0 THEN leaf ELSE SubSeq(leaf, 1, dot - 1)

ExtractionSuffix ==
    <<"_", "e", "x", "t", "r", "a", "c", "t", "i", "o", "n", ".", "j", "s", "o", "n">>

\* the alternative savePath modelled for comparison: -SaveExtraction is
\* looked at first
savePath_saveExtractionFirst(OutputPath, SaveExtraction, fullPath) ==
    IF SaveExtraction
    THEN JoinPath(SplitPathParent(fullPath),
                  GetFileNameWithoutExtension(fullPath) \o ExtractionSuffix)
    ELSE OutputPath

\* $savePath (client.go:659-668); the empty path is $null
savePath(OutputPath, SaveExtraction, fullPath) ==
    IF OutputPath # <<>>
    THEN OutputPath
    ELSE IF SaveExtraction
         THEN JoinPath(SplitPathParent(fullPath),
                       GetFileNameWithoutExtension(fullPath) \o ExtractionSuffix)
         ELSE <<>>

\* the alternative modelled for comparison: the file is written whatever the
\* answer was
Saves_always(o, path) == o # "invalid" /\ path # <<>>

\* whether Out-File runs (client.go:670-675): only past the ERROR return of
\* line 628 and with no exception, and only for a save path
Saves(o, path) == o = "ok" /\ path # <<>>

\* the process block for the next file of the pipeline (client.go:580-692):
\* a file that fails ValidateScript (534-538) is reported and skipped; for
\* the others the form is posted; a result is saved (670-675) and written
\* to the output as JSON (680), an ERROR answer (623-629) and an exception
\* (682-692) are written as one error
SendProcess ==
    /\ pc = "process" /\ mode = "powershell"
    /\ stdin < args.files
    /\ \E o \in FileOutcomes :
          LET fullPath == PipelineFiles[stdin + 1]
              path == savePath(args.OutputPath, args.SaveExtraction, fullPath)
          IN  /\ ps' = [ps EXCEPT
                          !.sent = IF o = "invalid" THEN @
                                   ELSE Append(@, SendForm(fullPath, args.PSVersion)),
                          !.saved = IF Saves(o, path)
                                    THEN Append(@, [path |-> path, filePath |-> fullPath])
                                    ELSE @,
                          !.outcome = o]
              /\ stdout' = (IF o = "ok" THEN stdout + 1 ELSE stdout)
              /\ stderr' = (IF o = "ok" THEN stderr ELSE stderr + 1)
    /\ stdin' = stdin + 1
    /\ UNCHANGED <<env, apiURL, apiKey, heap, cfg, apiClient, mode, args, execErr,
                   pc, callVars, out, reader, jsonOut, JSONOutput, exitCode>>

\* the pipeline is exhausted: the function has no end block
SendEnd ==
    /\ pc = "process" /\ mode = "powershell"
    /\ stdin = args.files
    /\ pc' = "done"
    /\ UNCHANGED <<env, apiURL, apiKey, heap, cfg, apiClient, mode, args, execErr,
                   callVars, stdin, stdout, out, ps, reader, jsonOut, JSONOutput, stderr, exitCode>>

NextSend == SendParam \/ SendBegin \/ SendProcess \/ SendEnd

SpecSend == InitSend /\ [][NextSend]_vars

\* C20 as stated: when -DocumentId is not supplied, no two documents of one
\* pipeline invocation are sent with the same document id.
C20_DistinctDocumentIds ==
    (mode = "powershell" /\ args.DocumentId = "") =>
        \A i, j \in 1..Len(ps.sent) :
            i # j => ps.sent[i].id # ps.sent[j].id

\* the path next to input file f: its directory, and its name with the
\* four characters of the .pdf extension replaced by _extraction.json
Alongside(f) == SubSeq(f, 1, Len(f) - 4) \o ExtractionSuffix

\* C21: a result is saved to -OutputPath when it is given, with or without
\* -SaveExtraction; otherwise next to its input file as
\* <base name>_extraction.json when -SaveExtraction is set; otherwise
\* nowhere. Every result returned is saved exactly when one of the two is
\* given.
C21_SavePrecedence ==
    mode = "powershell" =>
        /\ \A i \in 1..Len(ps.saved) :
              ps.saved[i].path =
                  IF args.OutputPath # <<>> THEN args.OutputPath
                  ELSE Alongside(ps.saved[i].filePath)
        /\ Len(ps.saved) =
              IF args.OutputPath # <<>> \/ args.SaveExtraction THEN stdout ELSE 0

\* a pipeline with -SaveExtraction and no -OutputPath has saved the results
\* of two files of different directories
C21_Witness ==
    /\ mode = "powershell" /\ args.SaveExtraction /\ args.OutputPath = <<>>
    /\ Len(ps.saved) = 2
    /\ SplitPathParent(ps.saved[1].path) # SplitPathParent(ps.saved[2].path)

\* C22: a file whose request throws or whose answer has state text ERROR
\* adds one error, no JSON result and no saved file, and the function stays
\* in its process block for the next file.
C22_FailureOnlyWritesError ==
    [][(pc = "process" /\ stdin' = stdin + 1 /\ ps'.outcome \in {"ERROR", "exception"})
         => /\ stderr' = stderr + 1
            /\ stdout' = stdout
            /\ ps'.saved = ps.saved
            /\ pc' = "process"]_vars

\* after a failed file the next file of the pipeline was processed and saved
C22_Witness ==
    /\ mode = "powershell" /\ args.SaveExtraction
    /\ stderr = 1 /\ stdout = 1 /\ Len(ps.sent) = 2 /\ Len(ps.saved) = 1
    /\ ps.outcome = "ok"
    /\ ps.saved[1].filePath = PipelineFiles[2]

(***************************************************************************)
(* The interactive shell: RunShell reads the input line by line, and       *)
(* parseArgs splits a line into the arguments of a command                 *)
(* (part_006:30-121).  Texts are sequences of characters; "0xE9" stands    *)
(* for a byte that is not valid UTF-8 and "U+FFFD" for the replacement     *)
(* character a range loop yields for it.                                   *)
(***************************************************************************)
WhiteSpace == {" ", "\n", "\t", "\r"}
InvalidBytes == {"0xE9"}
QuoteChars == {"\"", "'"}

\* strings.TrimSpace
TrimSpace(s) ==
    LET keep == {i \in 1..Len(s) : s[i] \notin WhiteSpace}
    IN  IF keep = {} THEN <<>>
        ELSE SubSeq(s, CHOOSE i \in keep : \A j \in keep : i <= j,
                       CHOOSE i \in keep : \A j \in keep : i >= j)

\* the rune a range loop yields for the next character of a string
DecodeRune(c) == IF c \in InvalidBytes THEN "U+FFFD" ELSE c

\* parseArgs before its loop (part_006:78-81)
parseArgsStart == [args |-> <<>>, current |-> <<>>, inQuote |-> FALSE, quoteChar |-> ""]

\* the alternative modelled for comparison: a space ends the argument inside
\* quotes too
parseArgsRune_splitsInQuotes(st, r) ==
    IF r \in QuoteChars
    THEN IF st.inQuote /\ r = st.quoteChar
         THEN [st EXCEPT !.inQuote = FALSE, !.quoteChar = ""]
         ELSE IF ~st.inQuote
              THEN [st EXCEPT !.inQuote = TRUE, !.quoteChar = r]
              ELSE [st EXCEPT !.current = Append(@, r)]
    ELSE IF r = " "
         THEN IF Len(st.current) > 0
              THEN [st EXCEPT !.args = Append(@, st.current), !.current = <<>>]
              ELSE st
         ELSE [st EXCEPT !.current = Append(@, r)]

\* one turn of parseArgs' loop for the rune r (part_006:83-103)
parseArgsRune(st, r) ==
    IF r \in QuoteChars
    THEN IF st.inQuote /\ r = st.quoteChar
         THEN [st EXCEPT !.inQuote = FALSE, !.quoteChar = ""]
         ELSE IF ~st.inQuote
              THEN [st EXCEPT !.inQuote = TRUE, !.quoteChar = r]
              ELSE [st EXCEPT !.current = Append(@, r)]
    ELSE IF r = " " /\ ~st.inQuote
         THEN IF Len(st.current) > 0
              THEN [st EXCEPT !.args = Append(@, st.current), !.current = <<>>]
              ELSE st
         ELSE [st EXCEPT !.current = Append(@, r)]

RECURSIVE parseArgsLoop(_, _, _)
parseArgsLoop(input, i, st) ==
    IF i > Len(input) THEN st
    ELSE parseArgsLoop(input, i + 1, parseArgsRune(st, DecodeRune(input[i])))

\* parseArgs (part_006:77-110)
parseArgs(input) ==
    LET st == parseArgsLoop(input, 1, parseArgsStart)
    IN  IF Len(st.current) > 0 THEN Append(st.args, st.current) ELSE st.args

\* reader.ReadString('\n') on the unread input: the text up to and with the
\* first newline, or everything left together with the error that ended the
\* input
ReadString(r) ==
    IF \E i \in 1..Len(r.buf) : r.buf[i] = "\n"
    THEN LET n == CHOOSE i \in 1..Len(r.buf) :
                      r.buf[i] = "\n" /\ \A j \in 1..(i - 1) : r.buf[j] # "\n"
         IN  [input |-> SubSeq(r.buf, 1, n), rest |-> SubSeq(r.buf, n + 1, Len(r.buf)),
              err |-> ""]
    ELSE [input |-> r.buf, rest |-> <<>>, err |-> r.end]

ExitInputs == {<<"e", "x", "i", "t">>, <<"q", "u", "i", "t">>, <<"q">>}
HelpInputs == {<<"h", "e", "l", "p">>, <<"?">>}

\* the lines typed into the shell
ShellLines ==
    ExitInputs \cup HelpInputs \cup
    {<<>>, <<"a">>, <<"a", " ", "b">>, <<" ", "a", " ">>,
     <<"\"", "a", " ", "b", "\"">>, <<"'", "a", "'">>, <<"\"", "\"">>,
     <<"a", " ", "\"", "\"">>, <<"0xE9">>}

RECURSIVE InputsOf(_)
InputsOf(n) ==
    IF n = 0 THEN {<<>>}
    ELSE {<<>>} \cup {l \o <<"\n">> \o rest : l \in ShellLines, rest \in InputsOf(n - 1)}

\* the inputs: up to MaxLines lines, and a last line that may lack its newline
ShellInputs == {p \o l : p \in InputsOf(MaxLines), l \in ShellLines}

\* how the input ends: io.EOF, or a read error of the file descriptor
ReadErrors == {"EOF", "read /dev/stdin: input/output error"}

\* the errors cmd.Execute can return to the shell
CommandErrors ==
    {Errorf("unknown command %q for %q", 0, <<>>, ""),
     Errorf("API URL is required. Set SCHEMACTL_API_URL or use --api-url flag", 0, <<>>, ""),
     Errorf("request failed: %w", 0, <<>>, "timeout"),
     Errorf("API error (%d): %s", 500, <<>>, "")}

InitShell ==
    /\ env = NoEnv /\ apiURL = <<>> /\ apiKey = "" /\ heap = <<>> /\ cfg = Nil
    /\ apiClient = NoClient /\ execErr = NoErr
    /\ mode = "shell" /\ pc = "prompt"
    /\ args = <<>>
    /\ call = NoCall /\ req = NoReq /\ nreq = 0 /\ net = NoNet /\ ret = NoRet
    /\ clock = 0
    /\ stdin = 0 /\ stdout = 0 /\ out = "" /\ ps = NoPS
    /\ reader \in [buf : ShellInputs, end : ReadErrors]
    /\ jsonOut = FALSE /\ JSONOutput = FALSE
    /\ stderr = 0 /\ exitCode = Running

\* one turn of RunShell's loop, up to the call of executeShellCommand, the
\* continue or the return (part_006:37-69); stdin counts the reads
RunShell ==
    /\ pc = "prompt" /\ mode = "shell"
    /\ LET r == ReadString(reader)
           input == TrimSpace(r.input)
           a == parseArgs(input)
       IN  /\ reader' = [reader EXCEPT !.buf = r.rest]
           /\ IF r.err # ""
              THEN /\ execErr' = (IF r.err = "EOF" THEN NoErr ELSE Errorf(r.err, 0, <<>>, ""))
                   /\ mode' = "oneshot" /\ pc' = "executed"
                   /\ out' = (IF r.err = "EOF" THEN "\nGoodbye!" ELSE "")
                   /\ UNCHANGED args
              ELSE IF input = <<>>
              THEN UNCHANGED <<execErr, mode, pc, out, args>>
              ELSE IF input \in ExitInputs
              THEN /\ execErr' = NoErr /\ mode' = "oneshot" /\ pc' = "executed"
                   /\ out' = "Goodbye!"
                   /\ UNCHANGED args
              ELSE IF input \in HelpInputs
              THEN out' = "printShellHelp" /\ UNCHANGED <<execErr, mode, pc, args>>
              ELSE IF Len(a) = 0
              THEN UNCHANGED <<execErr, mode, pc, out, args>>
              ELSE /\ args' = a /\ pc' = "executeShellCommand"
                   /\ UNCHANGED <<execErr, mode, out>>
    /\ stdin' = stdin + 1
    /\ UNCHANGED <<env, apiURL, apiKey, heap, cfg, apiClient, callVars, stdout, ps,
                   jsonOut, JSONOutput, stderr, exitCode>>

\* cmd.Execute() in executeShellCommand (part_006:113-117): the command
\* succeeds or returns one of its errors
executeShellCommandExecute ==
    /\ pc = "executeShellCommand" /\ mode = "shell"
    /\ execErr' \in CommandErrors \cup {NoErr}
    /\ pc' = "executed"
    /\ UNCHANGED <<env, apiURL, apiKey, heap, cfg, apiClient, mode, args, callVars,
                   stdin, stdout, out, ps, reader, jsonOut, JSONOutput, stderr, exitCode>>

NextShell == RunShell \/ executeShellCommandExecute \/ executeShellCommandReturn \/ main

SpecShell == InitShell /\ [][NextShell]_vars

(***************************************************************************)
(* Claims about the shell loop, checked under SpecShell.                   *)
(***************************************************************************)
\* a command that has run in the shell leads back to the prompt, its error
\* printed when it has one
CommandLeadsToPrompt ==
    (pc = "executed" /\ mode = "shell") =>
        /\ pc' = "prompt" /\ mode' = "shell"
        /\ execErr # NoErr => stdout' = stdout + 1

\* the step ends the shell loop
LoopEnds == mode = "shell" /\ mode' # "shell"

\* what the read of this turn returns
EndOfInput == ReadString(reader).err = "EOF"
ExitTyped == ReadString(reader).err = "" /\ TrimSpace(ReadString(reader).input) \in ExitInputs
ReadFailed == ReadString(reader).err \notin {"", "EOF"}

\* C23 as stated: a command's error is printed and the shell prompts again;
\* the loop ends only on exit, quit, q or end of input, and then without an
\* error.
C23_EndsOnlyOnExitOrEOF ==
    [][/\ CommandLeadsToPrompt
       /\ LoopEnds => (ExitTyped \/ EndOfInput) /\ execErr' = NoErr]_vars

\* C23, amended: a command's error is printed and the shell prompts again;
\* the loop ends only on exit, quit, q or end of input, then without an
\* error, or on a read error of the input, which it returns.
C23_EndsOnlyOnExitEOFOrReadError ==
    [][/\ CommandLeadsToPrompt
       /\ LoopEnds =>
             \/ (ExitTyped \/ EndOfInput) /\ execErr' = NoErr
             \/ ReadFailed /\ execErr' = Errorf(ReadString(reader).err, 0, <<>>, "")]_vars

\* a session in which a command failed has ended on exit without an error
C23_Witness ==
    /\ pc = "executed" /\ mode = "oneshot" /\ reader.end # ""
    /\ stdout = 1 /\ out = "Goodbye!" /\ execErr = NoErr

\* C24 as stated: the turn that reads a non-blank line other than exit,
\* quit, q, help and ?, with or without its newline, executes it as a
\* command.
C24_EveryLineExecuted ==
    [][(pc = "prompt" /\ mode = "shell" /\ reader.buf # <<>>) =>
          LET input == TrimSpace(ReadString(reader).input)
          IN  input \notin ({<<>>} \cup ExitInputs \cup HelpInputs)
                  => pc' = "executeShellCommand" /\ Len(args') > 0]_vars

(***************************************************************************)
(* SpecParse: parseArgs applied to the line a list of arguments is quoted  *)
(* into, as a user types it to pass those arguments, and to lines without  *)
(* quotes.                                                                 *)
(***************************************************************************)
MaxArgs == 2        \* arguments in a quoted line
MaxPlainLen == 4    \* characters in a line without quotes

\* argument values without quote characters: a word, a value with a space,
\* a flag, the empty string, a tab, a byte that is not UTF-8
ArgValues ==
    {<<"a">>, <<"a", " ", "b">>, <<" ">>, <<"-", "d">>, <<>>, <<"\t">>, <<"0xE9">>}

RECURSIVE SeqsUpTo(_, _)
SeqsUpTo(S, n) ==
    IF n = 0 THEN {<<>>}
    ELSE {<<>>} \cup {<<x>> \o t : x \in S, t \in SeqsUpTo(S, n - 1)}

ArgLists == SeqsUpTo(ArgValues, MaxArgs)
PlainLines == SeqsUpTo({"a", " ", "0xE9"}, MaxPlainLen)

\* the arguments written each in its quotes and joined with single spaces
RECURSIVE QuoteJoin(_, _)
QuoteJoin(list, quotes) ==
    IF list = <<>> THEN <<>>
    ELSE <<quotes[1]>> \o Head(list) \o <<quotes[1]>>
         \o (IF Len(list) = 1 THEN <<>> ELSE <<" ">>)
         \o QuoteJoin(Tail(list), Tail(quotes))

InitParse ==
    /\ env = NoEnv /\ apiURL = <<>> /\ apiKey = "" /\ heap = <<>> /\ cfg = Nil
    /\ apiClient = NoClient /\ execErr = NoErr
    /\ mode \in {"quoted", "plain"}
    /\ pc = IF mode = "quoted" THEN "quote" ELSE "parseArgs"
    /\ IF mode = "quoted"
       THEN args \in ArgLists /\ reader = NoReader
       ELSE args = <<>> /\ reader \in [buf : PlainLines, end : {""}]
    /\ call = NoCall /\ req = NoReq /\ nreq = 0 /\ net = NoNet /\ ret = NoRet
    /\ clock = 0
    /\ stdin = 0 /\ stdout = 0 /\ out = "" /\ ps = NoPS
    /\ jsonOut = FALSE /\ JSONOutput = FALSE
    /\ stderr = 0 /\ exitCode = Running

\* the user writes the arguments in quotes, double or single for each
QuoteLine ==
    /\ pc = "quote" /\ mode = "quoted"
    /\ \E quotes \in [1..Len(args) -> QuoteChars] :
          reader' = [reader EXCEPT !.buf = QuoteJoin(args, quotes)]
    /\ pc' = "parseArgs"
    /\ UNCHANGED <<env, apiURL, apiKey, heap, cfg, apiClient, mode, args, execErr,
                   callVars, stdin, stdout, out, ps, jsonOut, JSONOutput, stderr,
                   exitCode>>

\* args := parseArgs(input) (part_006:66)
parseArgsCall ==
    /\ pc = "parseArgs"
    /\ ret' = [done |-> TRUE, err |-> NoErr, result |-> parseArgs(reader.buf)]
    /\ pc' = "parsed"
    /\ UNCHANGED <<env, apiURL, apiKey, heap, cfg, apiClient, mode, args, execErr,
                   call, req, nreq, net, clock, stdin, stdout, out, ps, reader,
                   jsonOut, JSONOutput, stderr, exitCode>>

NextParse == QuoteLine \/ parseArgsCall

SpecParse == InitParse /\ [][NextParse]_vars

\* the line split on spaces with the empty pieces dropped
RECURSIVE SplitOnSpaces(_)
SplitOnSpaces(s) ==
    IF s = <<>> THEN <<>>
    ELSE IF Head(s) = " " THEN SplitOnSpaces(Tail(s))
    ELSE LET stop == IF \E i \in 1..Len(s) : s[i] = " "
                     THEN CHOOSE i \in 1..Len(s) :
                              s[i] = " " /\ \A j \in 1..(i - 1) : s[j] # " "
                     ELSE Len(s) + 1
         IN  <<SubSeq(s, 1, stop - 1)>> \o SplitOnSpaces(SubSeq(s, stop, Len(s)))

NonEmptyArgs == \A i \in 1..Len(args) : args[i] # <<>>
ValidUTF8(s) == \A i \in 1..Len(s) : s[i] \notin InvalidBytes

\* C25 as stated: parseArgs returns the original list for the quoted line of
\* non-empty arguments without quote characters, and the pieces between
\* spaces for a line without quote characters.
C25_ParseArgsInvertsQuoting ==
    pc = "parsed" =>
        /\ (mode = "quoted" /\ NonEmptyArgs) => ret.result = args
        /\ mode = "plain" => ret.result = SplitOnSpaces(reader.buf)

\* C25, amended: the same for arguments and lines that are valid UTF-8.
C25_ParseArgsInvertsQuotingOfUTF8 ==
    pc = "parsed" =>
        /\ (mode = "quoted" /\ NonEmptyArgs /\ \A i \in 1..Len(args) : ValidUTF8(args[i]))
               => ret.result = args
        /\ (mode = "plain" /\ ValidUTF8(reader.buf))
               => ret.result = SplitOnSpaces(reader.buf)

\* two arguments, one with a space inside, came back from a line that quotes
\* one with double and one with single quotes
C25_Witness ==
    /\ pc = "parsed" /\ mode = "quoted"
    /\ args = << <<"a", " ", "b">>, <<"-", "d">> >>
    /\ reader.buf[1] = "\"" /\ reader.buf[Len(reader.buf)] = "'"
    /\ ret.result = args

\* C26 as stated: a quoted empty token yields an empty-string argument, so
\* the parsed line has the arguments that were quoted, the empty ones too.
C26_QuotedEmptyIsEmptyArgument ==
    (pc = "parsed" /\ mode = "quoted" /\ \A i \in 1..Len(args) : ValidUTF8(args[i]))
        => ret.result = args

(***************************************************************************)
(* doc-types update and countries update (doctypes.go:129-171,             *)
(* countries.go:118-155).                                                  *)
(***************************************************************************)
\* the flags as the user gives them: set is Changed(), v the value cobra
\* returns (the default for a flag that is not given)
ActiveFlags == [set : {FALSE}, v : {TRUE}] \cup [set : {TRUE}, v : BOOLEAN]
DocTypeUpdateFlags ==
    [name : StringFlag({"", "x"}), description : StringFlag({"", "d"}), active : ActiveFlags]
CountryUpdateFlags == [name : StringFlag({"", "x"}), active : ActiveFlags]

ChangedBoolPtr(f) == IF f.set THEN [set |-> TRUE, v |-> f.v] ELSE [set |-> FALSE, v |-> FALSE]

\* the request docTypesUpdateCmd builds from its flags (doctypes.go:137-154)
docTypesUpdateRequest(f) ==
    [Name |-> NonEmptyPtr(f.name), Description |-> ChangedPtr(f.description),
     IsActive |-> ChangedBoolPtr(f.active)]
docTypesUpdateHasUpdate(f) == f.name.v # "" \/ f.description.set \/ f.active.set

\* the request countriesUpdateCmd builds from its flags (countries.go:126-138)
countriesUpdateRequest(f) ==
    [Name |-> NonEmptyPtr(f.name), IsActive |-> ChangedBoolPtr(f.active)]
countriesUpdateHasUpdate(f) == f.name.v # "" \/ f.active.set

\* the command returns before any call to the client
CmdFail(cmd, f, err) ==
    /\ call' = [NoCall EXCEPT !.cmd = cmd, !.id = UpdateId, !.in = f]
    /\ net' = NoNet
    /\ Fail(err)

\* docTypesUpdateCmd.RunE up to the request (doctypes.go:134-160)
docTypesUpdateCmd ==
    /\ pc = "idle"
    /\ \E f \in DocTypeUpdateFlags :
          IF ~docTypesUpdateHasUpdate(f)
          THEN CmdFail("doc-types update", f, Errorf("no update fields provided", 0, <<>>, ""))
          ELSE IdCallFrom("doc-types update", "UpdateDocType", UpdateId, f,
                          JSONBody(MarshalUpdateDocTypeRequest(docTypesUpdateRequest(f))))
    /\ UNCHANGED <<cliVars, apiClient>>

\* countriesUpdateCmd.RunE up to the request (countries.go:123-144)
countriesUpdateCmd ==
    /\ pc = "idle"
    /\ \E f \in CountryUpdateFlags :
          IF ~countriesUpdateHasUpdate(f)
          THEN CmdFail("countries update", f, Errorf("no update fields provided", 0, <<>>, ""))
          ELSE IdCallFrom("countries update", "UpdateCountry", UpdateId, f,
                          JSONBody(MarshalUpdateCountryRequest(countriesUpdateRequest(f))))
    /\ UNCHANGED <<cliVars, apiClient>>

UpdateCmds == {"schemas update", "doc-types update", "countries update"}

\* C28 as stated: an update command that has sent a request was given an
\* update field, and the request is a PATCH whose body has at least one
\* field; a command given no update field has failed with "no update fields
\* provided" and sent nothing.
C28_PatchBodyHasAField ==
    call.cmd \in UpdateCmds =>
        /\ nreq >= 1 =>
              /\ \E n \in DOMAIN call.in : call.in[n].set
              /\ req.method = "PATCH"
              /\ SentMembers # {}
        /\ (\A n \in DOMAIN call.in : ~call.in[n].set) =>
              /\ pc = "returned"
              /\ ret.err.format = "no update fields provided"
              /\ nreq = 0

(***************************************************************************)
(* SpecGenerate: GenerateSchema called directly and from schemas generate, *)
(* and the claim about the generate requests.                              *)
(***************************************************************************)
NextGenerate == GenerateSchema \/ schemasGenerateCmd \/ Respond \/ NextCall

SpecGenerate == InitClient /\ [][NextGenerate]_vars

\* the names of the parts of the multipart body sent
SentParts == {req.body.parts[i] : i \in 1..Len(req.body.parts)}

\* the call or the command has failed without a request
FailedUnsent == pc = "returned" /\ ret.err # NoErr /\ nreq = 0 /\ req = NoReq

\* C27: GenerateSchema with neither FilePath nor Text fails without a
\* request; schemas generate given both --file and --text, or neither,
\* fails without a request; a file that cannot be opened fails without a
\* request; every body sent has docTypeCode and countryCode and either a
\* file with useOCR or a text, never a file and a text.
C27_OneContentSource ==
    (call.op = "GenerateSchema" \/ call.cmd = "schemas generate") =>
        /\ (call.filePath = "" /\ call.text = "") => FailedUnsent
        /\ (call.cmd = "schemas generate" /\ call.filePath # "" /\ call.text # "")
               => FailedUnsent
        /\ (call.filePath # "" /\ ~FileExists(call.filePath)) => FailedUnsent
        /\ nreq >= 1 =>
              /\ {"docTypeCode", "countryCode"} \subseteq SentParts
              /\ \/ {"file", "useOCR"} \subseteq SentParts /\ "text" \notin SentParts
                 \/ "text" \in SentParts /\ "file" \notin SentParts

\* GenerateSchema called with a file and a text has sent the file only
C27_Witness ==
    /\ pc = "inflight" /\ call.op = "GenerateSchema"
    /\ call.filePath = "doc.pdf" /\ call.text = "text"
    /\ SentParts = {"docTypeCode", "countryCode", "file", "useOCR"}

(***************************************************************************)
(* Claims about the configuration of the commands, checked under Spec.     *)
(***************************************************************************)
\* C29 as stated: every client the process constructs has a base URL that
\* is not empty and does not end in "/", and its request goes to the base
\* URL followed by the path.
C29_BaseURLNormalised ==
    apiClient.alloc =>
        /\ apiClient.baseURL # <<>>
        /\ Len(apiClient.baseURL) > 0 => apiClient.baseURL[Len(apiClient.baseURL)] # "/"
        /\ nreq >= 1 => req.url = apiClient.baseURL \o HealthPath

\* C30: while a shell command is initialised the flag variables hold what
\* its own line gave, and when it runs the configuration, the client and the
\* JSON-output mode are those of the environment and of its own line,
\* whatever earlier lines and the launch of the shell were given.
C30_ShellCommandFromScratch ==
    mode = "shell" =>
        /\ pc \in {"Load", "WithAPIURL", "WithAPIKey", "Validate", "New"} =>
               apiURL = args.url /\ apiKey = args.key /\ jsonOut = args.json
        /\ pc \in {"RunE", "inflight", "returned"} =>
               LET url == Resolve(args.url, env.url, DefaultAPIURL, <<>>)
                   key == Resolve(args.key, env.key, "", "")
               IN  /\ heap[cfg].APIBaseURL = url /\ heap[cfg].APIKey = key
                   /\ apiClient.baseURL = TrimSuffix(url) /\ apiClient.apiKey = key
                   /\ JSONOutput = args.json

\* a shell line without flags is being initialised while the client and the
\* JSON-output mode are still those of an earlier line or of the launch,
\* which gave --api-url, --api-key and --json
C30_Witness ==
    /\ mode = "shell" /\ pc = "New"
    /\ args.cmd = "health" /\ args.url = <<>> /\ args.key = "" /\ ~args.json
    /\ apiURL = <<>> /\ apiKey = "" /\ ~jsonOut
    /\ JSONOutput /\ apiClient.baseURL = <<"f">> /\ apiClient.apiKey = "fk"

(***************************************************************************)
(* The next-state relation of SpecOps.                                     *)
(***************************************************************************)
NextOps ==
    \/ ListSchemas
    \/ schemasListCmd
    \/ IdentifierOp
    \/ UpdateOp
    \/ schemasUpdateCmd
    \/ docTypesUpdateCmd
    \/ countriesUpdateCmd
    \/ schemasLifecycleCmd
    \/ CreateSchema
    \/ FindBestSchema
    \/ schemasFindBestCmd
    \/ schemasFindBestCmdReturn
    \/ NextCommand
    \/ RespondOps
    \/ NextCall

SpecOps == InitOps /\ [][NextOps]_vars

\* the same with redirecting servers
NextRedirect == NextOps \/ Redirect

SpecRedirect == InitOps /\ [][NextRedirect]_vars

====
